---- MODULE Spec2Model ----
(***************************************************************************)
(* whaticon: perceptual fingerprints (1024-bit difference hashes) of       *)
(* icons, their Hamming distance, and the linear-scan matcher over a       *)
(* packed index of fingerprints.                                           *)
(*                                                                         *)
(* Numbers.  TLC's integers are 32-bit signed, so a JavaScript uint32 is   *)
(* kept as a pair <<hi, lo>> of 16-bit halves and the popcount arithmetic  *)
(* is done on the halves.  A similarity 1 - d/t is kept as the exact       *)
(* fraction [num |-> t - d, den |-> t]; for the 128-byte fingerprints of   *)
(* the matcher t = 1024 and the doubles of the program are exactly these   *)
(* fractions (k/1024 is a dyadic rational).                                *)
(***************************************************************************)
EXTENDS Integers, Sequences, FiniteSets, TLC

VARIABLES
    h1,        \* first buffer handed to the last codec call
    h2,        \* second buffer handed to the last codec call
    ret,       \* what the last codec call returned or threw
    svg,       \* the image handed to computeDHash
    size,      \* the size argument handed to computeDHash
    pixels,    \* the raster the rasterizer gave computeDHash
    hash,      \* what computeDHash returned or threw
    index,     \* the loaded index: [names, hashes]
    query,     \* the image handed to findMatches
    options,   \* the MatchOptions handed to findMatches
    engine,    \* the JavaScript engine whose Array.prototype.sort runs
    matches,   \* what findMatches returned or threw
    candidates, \* the array matches of findMatches when its loop has ended
    icons,     \* the icons handed to buildIndex
    buildSize, \* the size argument handed to buildIndex
    spriteFails, \* the batches whose sprite sheet the rasterizer rejects
    built,     \* what buildIndex returned or threw
    progress,  \* the calls of onProgress so far: <<current, total>> each
    namesGz,   \* the file names.txt.gz handed to loadIndex
    hashesGz,  \* the file hashes.bin.gz handed to loadIndex
    loaded,    \* what loadIndex returned or threw
    fetchName, \* the name handed to fetchIconSvg
    upstream,  \* what api.iconify.design does with a request
    requests,  \* the URLs fetchIconSvg requested
    fetched,   \* what fetchIconSvg returned or threw
    cache,     \* the files under CACHE_DIR: path -> file
    ensure,    \* the ensureIndex call in flight: where it is, on which variant
    answer,    \* what the last call of download.ts that ended returned or threw
    asked,     \* the variant that call was made with
    ensured,   \* the variants ensureIndex returned since the cache was cleared
    calls,     \* the calls of download.ts made so far
    writes,    \* the files written into the cache by hand so far
    argv,      \* the arguments the command line was started with
    world,     \* what the command line finds: files, the network, the indexes
    exited,    \* the process of the command line once it has ended
    building,  \* the buildIndex call in flight: where it is, what it gathered
    running    \* the findMatches calls on the loaded index, one per caller

varsCodec == <<h1, h2, ret>>
varsHash == <<svg, size, pixels, hash>>
varsMatch == <<index, query, options, engine, matches, candidates>>
varsIndex == <<icons, buildSize, spriteFails, built, progress, namesGz, hashesGz, loaded>>
varsFetch == <<fetchName, upstream, requests, fetched>>
varsCache == <<cache, ensure, answer, asked, ensured, calls, writes>>
varsCli == <<argv, world, exited>>
varsBuild == <<building>>
varsQueries == <<running>>
varsLater == <<varsFetch, varsCache, varsCli, varsBuild, varsQueries>>
varsRest == <<varsIndex, varsLater>>
vars == <<h1, h2, ret, svg, size, pixels, hash,
          index, query, options, engine, matches, candidates,
          icons, buildSize, spriteFails, built, progress, namesGz, hashesGz, loaded,
          fetchName, upstream, requests, fetched,
          cache, ensure, answer, asked, ensured, calls, writes,
          argv, world, exited, building, running>>

\* const HASH_BYTES = 128
HASH_BYTES == 128
\* const DEFAULT_SIZE = 32
DEFAULT_SIZE == 32

(***************************************************************************)
(* Bounds of the model.                                                    *)
(***************************************************************************)
\* buffers of every length 0..MaxShortLen are compared, besides 64 and 128
MaxShortLen == 5
\* the pictures of each kind are numbered 0..MaxStep
MaxStep == 3
\* an index holds at most MaxRecords records
MaxRecords == 3
\* the short icon lists handed to buildIndex have at most MaxIcons icons
MaxIcons == 3
\* the long icon lists fill MaxBatches batches and start one more
MaxBatches == 1
\* the names handed to fetchIconSvg have at most MaxNameLen characters
MaxNameLen == 4
\* at most MaxCalls calls of download.ts are made, and MaxWrites files written
\* into the cache by hand
MaxCalls == 3
MaxWrites == 1

Min(a, b) == IF a < b THEN a ELSE b
Max(a, b) == IF a < b THEN b ELSE a

(***************************************************************************)
(* Bit operations of JavaScript on bytes and on 32-bit words.              *)
(***************************************************************************)
RECURSIVE BitAndRec(_, _, _)
BitAndRec(a, b, n) ==
    IF n = 0 THEN 0
    ELSE (a % 2) * (b % 2) + 2 * BitAndRec(a \div 2, b \div 2, n - 1)

RECURSIVE BitXorRec(_, _, _)
BitXorRec(a, b, n) ==
    IF n = 0 THEN 0
    ELSE ((a + b) % 2) + 2 * BitXorRec(a \div 2, b \div 2, n - 1)

\* the two operations on 4-bit digits, tabulated once
AND4 == [a \in 0..15 |-> [b \in 0..15 |-> BitAndRec(a, b, 4)]]
XOR4 == [a \in 0..15 |-> [b \in 0..15 |-> BitXorRec(a, b, 4)]]

\* a ^ b on two bytes
Xor8(a, b) == XOR4[a % 16][b % 16] + 16 * XOR4[a \div 16][b \div 16]

\* a & b on two 16-bit halves
And16(a, b) ==
    AND4[a % 16][b % 16]
    + 16 * AND4[(a \div 16) % 16][(b \div 16) % 16]
    + 256 * AND4[(a \div 256) % 16][(b \div 256) % 16]
    + 4096 * AND4[a \div 4096][b \div 4096]

\* buf[i] of a Buffer (0-based); a read outside the buffer gives undefined,
\* which ^ turns into 0 (ToInt32(undefined) = 0)
ByteAt(buf, i) == IF i >= 0 /\ i < Len(buf) THEN buf[i + 1] ELSE 0

\* Buffer.alloc(len, fill)
Filled(len, fill) == [i \in 1..len |-> fill]

\* (b0 | b1 << 8 | b2 << 16 | b3 << 24) >>> 0 : the four bytes do not
\* overlap, and >>> 0 reads the int32 as unsigned
PackWord(b0, b1, b2, b3) == <<b2 + 256 * b3, b0 + 256 * b1>>

\* w >>> n, for 0 < n < 32
ShiftRight(w, n) ==
    IF n >= 16 THEN <<0, w[1] \div (2 ^ (n - 16))>>
    ELSE <<w[1] \div (2 ^ n),
           (w[2] \div (2 ^ n)) + (w[1] % (2 ^ n)) * (2 ^ (16 - n))>>

\* w & m
AndWord(w, m) == <<And16(w[1], m[1]), And16(w[2], m[2])>>

\* a - b and a + b, kept to 32 bits (the next & or >>> of the program reads
\* the double through ToInt32/ToUint32, i.e. modulo 2^32)
SubWord(a, b) ==
    LET l == a[2] - b[2]
        h == a[1] - b[1]
    IN  IF l < 0 THEN <<(h - 1) % 65536, l + 65536>> ELSE <<h % 65536, l>>

AddWord(a, b) ==
    LET l == a[2] + b[2]
        h == a[1] + b[1]
    IN  <<(h + l \div 65536) % 65536, l % 65536>>

\* Math.imul(a, c): the low 32 bits of the product (the halves of c are
\* below 2^15 at every use, so no partial product leaves TLC's integers)
Imul(a, c) ==
    LET p == a[2] * c[2]
    IN  <<(p \div 65536 + a[1] * c[2] + a[2] * c[1]) % 65536, p % 65536>>

Mask55 == <<21845, 21845>>   \* 0x55555555
Mask33 == <<13107, 13107>>   \* 0x33333333
Mask0f == <<3855, 3855>>     \* 0x0f0f0f0f
Mul01 == <<257, 257>>        \* 0x01010101

\* the 32-bit popcount of lines 117-120 (and 147-150)
popcount32(xor) ==
    LET x1 == SubWord(xor, AndWord(ShiftRight(xor, 1), Mask55))
        x2 == AddWord(AndWord(x1, Mask33), AndWord(ShiftRight(x1, 2), Mask33))
        x3 == AndWord(AddWord(x2, ShiftRight(x2, 4)), Mask0f)
    IN  ShiftRight(Imul(x3, Mul01), 24)[2]

(***************************************************************************)
(* Fingerprint codec: hammingDistance and hashSimilarity.                  *)
(***************************************************************************)
\* what a call gives back: a value, or the Error it throws
Returned(op, v) == [op |-> op, threw |-> FALSE, msg |-> "", value |-> v]
Thrown(op, m) == [op |-> op, threw |-> TRUE, msg |-> m, value |-> 0]
NoCall == [op |-> "none", threw |-> FALSE, msg |-> "", value |-> 0]

\* the word XOR-ed together at lines 110-115 from bytes i .. i+3
xorWordMissingLane(a, b, i) ==
    PackWord(Xor8(ByteAt(a, i), ByteAt(b, i)),
             Xor8(ByteAt(a, i + 1), ByteAt(b, i + 1)),
             Xor8(ByteAt(a, i + 2), ByteAt(b, i + 2)),
             0)

xorWord(a, b, i) ==
    PackWord(Xor8(ByteAt(a, i), ByteAt(b, i)),
             Xor8(ByteAt(a, i + 1), ByteAt(b, i + 1)),
             Xor8(ByteAt(a, i + 2), ByteAt(b, i + 2)),
             Xor8(ByteAt(a, i + 3), ByteAt(b, i + 3)))

\* for (let i = 0; i < h1.length; i += 4) distance += popcount(xor)
\* (the test on next is always true: it makes TLC add up each step's count
\* before it goes on, as the loop does)
RECURSIVE hammingLoop(_, _, _, _)
hammingLoop(a, b, i, distance) ==
    IF i >= Len(a) THEN distance
    ELSE LET next == distance + popcount32(xorWord(a, b, i))
         IN  IF next >= 0 THEN hammingLoop(a, b, i + 4, next) ELSE next

hammingDistanceNoLengthCheck(a, b) ==
    Returned("hammingDistance", hammingLoop(a, b, 0, 0))

hammingDistance(a, b) ==
    IF Len(a) # Len(b) THEN Thrown("hammingDistance", "Hash length mismatch")
    ELSE Returned("hammingDistance", hammingLoop(a, b, 0, 0))

\* a double that is the quotient of two integers, or NaN (0/0)
Frac(n, d) == [nan |-> FALSE, num |-> n, den |-> d]
NaN == [nan |-> TRUE, num |-> 0, den |-> 1]

\* 1 - distance / totalBits
OneMinusQuotient(distance, totalBits) ==
    IF totalBits = 0 THEN NaN ELSE Frac(totalBits - distance, totalBits)

hashSimilarityOfDistance(a, b) ==
    LET d == hammingDistance(a, b)
    IN  IF d.threw THEN Thrown("hashSimilarity", d.msg)
        ELSE Returned("hashSimilarity", Frac(d.value, Len(a) * 8))

hashSimilarity(a, b) ==
    LET d == hammingDistance(a, b)
    IN  IF d.threw THEN Thrown("hashSimilarity", d.msg)
        ELSE Returned("hashSimilarity", OneMinusQuotient(d.value, Len(a) * 8))

(***************************************************************************)
(* computeHashFromPixels and computeDHash.                                 *)
(*                                                                         *)
(* The rasterizer (sharp) is outside the repository.  An image is modelled *)
(* by what the rasterizer makes of it: either it is rejected, or it is a   *)
(* picture with a grey value at every pixel of the requested frame.  A     *)
(* picture has the width and height of its viewBox (vbW, vbH); scaled to   *)
(* fit a frame with its proportions kept it fills a box of the frame, and  *)
(* GreyAt gives its grey values inside that box.  Where the box stands in  *)
(* the frame is decided by the code that has it drawn.                     *)
(***************************************************************************)
PictureKinds == {"step", "ramp", "diag", "checker", "lastcol"}
\* the width and height of an icon when its set gives none
\* (scripts/build-index.ts, lines 53-54: data.width || 24)
DefaultViewBox == 24
\* an icon as the build script writes it: width, height and viewBox "0 0 w h"
Shaped(kind, k, w, h) == [kind |-> kind, k |-> k, vbW |-> w, vbH |-> h]
Picture(kind, k) == Shaped(kind, k, DefaultViewBox, DefaultViewBox)
InvalidImage == Shaped("invalid", 0, DefaultViewBox, DefaultViewBox)
Pictures == {Picture(kind, k) : kind \in PictureKinds, k \in 0..MaxStep}
Images == Pictures \cup {InvalidImage}

\* the grey value (0..255) of pixel (x, y) of the picture in a w x h frame
GreyAt(img, x, y, w, h) ==
    CASE img.kind = "step" -> IF y = 0 THEN 10 * Min(x, img.k) ELSE 0
      [] img.kind = "ramp" -> Min(255, x * (img.k + 1))
      [] img.kind = "diag" -> IF x > y + img.k THEN 255 ELSE 0
      [] img.kind = "checker" -> IF (x + y) % (img.k + 2) = 0 THEN 255 ELSE 0
      [] img.kind = "lastcol" ->
            IF x = w - 1 /\ y % (img.k + 1) = 0 THEN 255 ELSE 0

\* Math.round(a / b) for a >= 0, b > 0
RoundDiv(a, b) == (2 * a + b) \div (2 * b)

\* the box of the picture scaled by min(w / vbW, h / vbH), in whole pixels
FitBox(img, w, h) ==
    IF w * img.vbH <= h * img.vbW
    THEN [w |-> w, h |-> Max(1, RoundDiv(img.vbH * w, img.vbW))]
    ELSE [w |-> Max(1, RoundDiv(img.vbW * h, img.vbH)), h |-> h]

\* the grey value of pixel (x, y) of a white frame of w x h in which the
\* box of the picture stands with its corner at (left, top)
PlacedAt(img, box, x, y, left, top) ==
    IF x >= left /\ x < left + box.w /\ y >= top /\ y < top + box.h
    THEN GreyAt(img, x - left, y - top, box.w, box.h)
    ELSE 255

\* resize(w, h, { fit: 'contain', background: '#ffffff' }): the box in the
\* middle of the frame, the odd pixel of free space to the right and below
ContainAt(img, box, x, y, w, h) ==
    PlacedAt(img, box, x, y, (w - box.w) \div 2, (h - box.h) \div 2)

\* sharp(input).flatten().resize(w, h, ...).grayscale().raw().toBuffer():
\* w * h bytes, row-major, one byte per pixel
Rasterize(img, w, h) ==
    [i \in 1..(w * h) |->
        ContainAt(img, FitBox(img, w, h), (i - 1) % w, (i - 1) \div w, w, h)]

\* a | b on two bytes
Or8(a, b) == a + b - (AND4[a % 16][b % 16] + 16 * AND4[a \div 16][b \div 16])

\* data[i]! < data[j]! ; a read outside the buffer gives undefined, and a
\* comparison with undefined is false
PixelLess(data, i, j) ==
    /\ i >= 0 /\ i < Len(data)
    /\ j >= 0 /\ j < Len(data)
    /\ data[i + 1] < data[j + 1]

\* hash[idx] = v ; a write outside the buffer is dropped
WriteByte(buf, idx, v) ==
    IF idx >= 0 /\ idx < Len(buf) THEN [buf EXCEPT ![idx + 1] = v] ELSE buf

\* const hash = Buffer.alloc(HASH_BYTES)
allocHashBySize(n) == Filled((n * n) \div 8, 0)

allocHash(n) == Filled(HASH_BYTES, 0)

\* the body of the inner loop, lines 69-76
hashStep(data, idx, st) ==
    LET b == IF PixelLess(data, idx, idx + 1)
             THEN Or8(st.byte, 128 \div (2 ^ st.bitInByte))
             ELSE st.byte
    IN  IF st.bitInByte + 1 = 8
        THEN [hash |-> WriteByte(st.hash, st.byteIndex, b),
              byteIndex |-> st.byteIndex + 1, byte |-> 0, bitInByte |-> 0]
        ELSE [hash |-> st.hash, byteIndex |-> st.byteIndex,
              byte |-> b, bitInByte |-> st.bitInByte + 1]

\* for (let x = 0; x < size; x++)
\* (the test on byteIndex is always true: it makes TLC compute each step's
\* state before it goes on, as the loop does)
RECURSIVE hashColumns(_, _, _, _, _)
hashColumns(data, n, rowOffset, x, st) ==
    IF x >= n THEN st
    ELSE LET next == hashStep(data, rowOffset + x, st)
         IN  IF next.byteIndex >= 0
             THEN hashColumns(data, n, rowOffset, x + 1, next)
             ELSE next

\* for (let y = 0; y < size; y++) { const rowOffset = y * rowWidth ... }
RECURSIVE hashRows(_, _, _, _, _)
hashRows(data, n, rowWidth, y, st) ==
    IF y >= n THEN st
    ELSE LET next == hashColumns(data, n, y * rowWidth, 0, st)
         IN  IF next.byteIndex >= 0
             THEN hashRows(data, n, rowWidth, y + 1, next)
             ELSE next

computeHashFromPixels(data, n, rowWidth) ==
    hashRows(data, n, rowWidth, 0,
             [hash |-> allocHash(n), byteIndex |-> 0, byte |-> 0,
              bitInByte |-> 0]).hash

\* an optional argument: left out, or given
Omitted == [given |-> FALSE, value |-> 0]
Given(v) == [given |-> TRUE, value |-> v]
\* size = DEFAULT_SIZE in the parameter list
SizeOrDefault(arg) == IF arg.given THEN arg.value ELSE DEFAULT_SIZE

\* the raster computeDHash asks for: resize(size + 1, size)
RasterOf(img, n) == Rasterize(img, n + 1, n)

computeDHash(img, arg) ==
    LET n == SizeOrDefault(arg)
    IN  IF img.kind = "invalid"
        THEN Thrown("computeDHash", "Input buffer contains unsupported image format")
        ELSE Returned("computeDHash",
                      computeHashFromPixels(RasterOf(img, n), n, n + 1))

\* the sizes computeDHash is called with
Sizes == {1, 2, 3, 4, 8, DEFAULT_SIZE, DEFAULT_SIZE + 1, 40}
SizeArgs == {Omitted} \cup {Given(n) : n \in Sizes}

\* an option left out, of the type of a threshold and of a list
OmittedFraction == [given |-> FALSE, value |-> Frac(0, 1)]
OmittedList == [given |-> FALSE, value |-> <<>>]

\* options = {} in the parameter list of findMatches
DefaultOptions ==
    [size |-> Omitted, limit |-> Omitted, threshold |-> OmittedFraction,
     prefixes |-> OmittedList, prefer |-> OmittedList]

IdleMatch ==
    /\ index = [names |-> <<>>, hashes |-> <<>>]
    /\ query = InvalidImage
    /\ options = DefaultOptions
    /\ engine = "v8"
    /\ matches = NoCall
    /\ candidates = <<>>

IdleHash ==
    /\ svg = InvalidImage
    /\ size = Omitted
    /\ pixels = <<>>
    /\ hash = NoCall

IdleCodec ==
    /\ h1 = <<>>
    /\ h2 = <<>>
    /\ ret = NoCall

\* no file: nothing was written or handed over yet
NoFile == [gzip |-> FALSE, data |-> <<>>]

IdleIndex ==
    /\ icons = <<>>
    /\ buildSize = Omitted
    /\ spriteFails = {}
    /\ built = NoCall
    /\ progress = <<>>
    /\ namesGz = NoFile
    /\ hashesGz = NoFile
    /\ loaded = NoCall

\* a fetch that ended in a Response (res.ok is status in 200..299), or that
\* was rejected because the host could not be reached
Response(status, body) ==
    [failed |-> FALSE, ok |-> status >= 200 /\ status <= 299,
     status |-> status, body |-> body]
NetworkDown == [failed |-> TRUE, ok |-> FALSE, status |-> 0, body |-> ""]

IdleFetch ==
    /\ fetchName = <<>>
    /\ upstream = NetworkDown
    /\ requests = <<>>
    /\ fetched = NoCall

\* IndexVariant (download.ts, line 11) and the files of a variant (lines 25-27)
Variants == {"core", "popular", "full"}
FileNames == {"names.txt.gz", "hashes.bin.gz", "metadata.json"}

\* join(CACHE_DIR, variant) (lines 18-20): a directory is named by its variant
getVariantDir(variant) == variant

\* every variant's paths within one directory
getIndexPathsShared(variant) ==
    [names |-> <<getVariantDir("core"), "names.txt.gz">>,
     hashes |-> <<getVariantDir("core"), "hashes.bin.gz">>,
     metadata |-> <<getVariantDir("core"), "metadata.json">>]

\* getIndexPaths (lines 22-29): a path is <<directory, file name>>
getIndexPaths(variant) ==
    [names |-> <<getVariantDir(variant), "names.txt.gz">>,
     hashes |-> <<getVariantDir(variant), "hashes.bin.gz">>,
     metadata |-> <<getVariantDir(variant), "metadata.json">>]

Paths == {getVariantDir(v) : v \in Variants} \X FileNames

\* a path with no file, and a file with its bytes
Absent == [exists |-> FALSE, data |-> <<>>]
FileOf(data) == [exists |-> TRUE, data |-> data]

\* CACHE_DIR with nothing in it
EmptyCache == [p \in Paths |-> Absent]

\* no ensureIndex call is in flight
NotEnsuring == [pc |-> "idle", variant |-> "core", downloads |-> 0]

IdleCache ==
    /\ cache = EmptyCache
    /\ ensure = NotEnsuring
    /\ answer = NoCall
    /\ asked = "core"
    /\ ensured = {}
    /\ calls = 0
    /\ writes = 0

\* a string that may be undefined (an option left out, an array element
\* past the end)
Undefined == [defined |-> FALSE, text |-> <<>>]
Defined(text) == [defined |-> TRUE, text |-> text]

\* the command line was not started
NoArgs == [url |-> Undefined, icon |-> Undefined, file |-> Undefined,
           index |-> Undefined, json |-> FALSE]
NoWorld == [urlOk |-> FALSE, iconFound |-> FALSE, fileExists |-> FALSE,
            body |-> <<>>, bundled |-> FALSE, downloaded |-> FALSE,
            ensureFails |-> FALSE, found |-> 0]
NotStarted == [svg |-> Undefined, stderr |-> <<>>, stdout |-> <<>>, steps |-> <<>>,
               code |-> 0, done |-> FALSE]

IdleCli ==
    /\ argv = NoArgs
    /\ world = NoWorld
    /\ exited = NotStarted

\* no buildIndex call in flight
NotBuilding == [pc |-> "idle", i |-> 0, names |-> <<>>, hashBuffers |-> <<>>, log |-> <<>>]

IdleBuild == building = NotBuilding

\* no caller of findMatches
IdleQueries == running = <<>>

IdleLater == IdleFetch /\ IdleCache /\ IdleCli /\ IdleBuild /\ IdleQueries

IdleRest == IdleIndex /\ IdleLater

InitHash ==
    /\ svg \in Images
    /\ size \in SizeArgs
    /\ pixels = <<>>
    /\ hash = NoCall
    /\ IdleCodec
    /\ IdleMatch
    /\ IdleRest

\* computeDHash(svg, size)
CallComputeDHash ==
    /\ hash = NoCall
    /\ hash' = computeDHash(svg, size)
    /\ pixels' = IF svg.kind = "invalid" THEN <<>>
                 ELSE RasterOf(svg, SizeOrDefault(size))
    /\ UNCHANGED <<svg, size>>
    /\ UNCHANGED <<varsCodec, varsMatch, varsRest>>

NextHash == CallComputeDHash

SpecHash == InitHash /\ [][NextHash]_vars

(***************************************************************************)
(* The buffers the codec is called with.                                   *)
(***************************************************************************)
BufLens == (0..MaxShortLen) \cup {64, HASH_BYTES}
FillBytes == {0, 255, 165}
\* positions in each of the four byte lanes of a word, and the last byte
PokePositions == {0, 1, 2, 3, HASH_BYTES - 1}
PokeValues == {1, 128}

Poked(len, fill, pos, val) ==
    [i \in 1..len |-> IF i = pos + 1 THEN val ELSE fill]

PlainBuffers == {Filled(len, fill) : len \in BufLens, fill \in FillBytes}
PokedBuffers ==
    {Poked(len, fill, pos, val) :
        len \in BufLens, fill \in {0, 255}, pos \in PokePositions, val \in PokeValues}
Buffers == PlainBuffers \cup PokedBuffers

InitCodec ==
    /\ h1 \in PlainBuffers
    /\ h2 \in Buffers
    /\ ret = NoCall
    /\ IdleHash
    /\ IdleMatch
    /\ IdleRest

\* hammingDistance(h1, h2)
CallHammingDistance ==
    /\ ret = NoCall
    /\ ret' = hammingDistance(h1, h2)
    /\ UNCHANGED <<h1, h2>>
    /\ UNCHANGED <<varsHash, varsMatch, varsRest>>

\* hashSimilarity(h1, h2)
CallHashSimilarity ==
    /\ ret = NoCall
    /\ ret' = hashSimilarity(h1, h2)
    /\ UNCHANGED <<h1, h2>>
    /\ UNCHANGED <<varsHash, varsMatch, varsRest>>

NextCodec == CallHammingDistance \/ CallHashSimilarity

SpecCodec == InitCodec /\ [][NextCodec]_vars

(***************************************************************************)
(* The matcher: findMatches.                                               *)
(*                                                                         *)
(* A name is a sequence of characters.  A threshold is a fraction; the     *)
(* thresholds used are decimals with three digits, for which the doubles   *)
(* of the program decide floor((1 - t) * 1024) and s >= t as the exact     *)
(* fractions do: (1 - t) * 1024 is an integer only when t is a multiple of *)
(* 1/8, which a double holds exactly, and is otherwise at least 1/125 away *)
(* from one; a similarity k/1024 is exact, and 1/1024 < 0.001 < 2/1024.    *)
(***************************************************************************)
\* name.split(':')[0] : the part before the first colon, the whole name
\* when it has none
PrefixOf(name) ==
    IF \E i \in 1..Len(name) : name[i] = ":"
    THEN SubSeq(name, 1,
                (CHOOSE i \in 1..Len(name) :
                     name[i] = ":" /\ \A j \in 1..(i - 1) : name[j] # ":") - 1)
    ELSE name

\* new Set(list).has(x)
SetHas(list, x) == \E i \in 1..Len(list) : list[i] = x

\* prefixes?.length ? new Set(prefixes) : null
SetOrNull(opt) ==
    IF opt.given /\ Len(opt.value) > 0 THEN Given(opt.value) ELSE Omitted

\* the word XOR-ed together at lines 141-146
xorWordAtOffset(a, indexHashes, offset, i) ==
    PackWord(Xor8(ByteAt(a, i), ByteAt(indexHashes, offset + i)),
             Xor8(ByteAt(a, i + 1), ByteAt(indexHashes, offset + i + 1)),
             Xor8(ByteAt(a, i + 2), ByteAt(indexHashes, offset + i + 2)),
             Xor8(ByteAt(a, i + 3), ByteAt(indexHashes, offset + i + 3)))

\* for (let i = 0; i < HASH_BYTES; i += 4)
RECURSIVE hammingAtOffsetLoop(_, _, _, _, _)
hammingAtOffsetLoop(a, indexHashes, offset, i, distance) ==
    IF i >= HASH_BYTES THEN distance
    ELSE LET next == distance + popcount32(xorWordAtOffset(a, indexHashes, offset, i))
         IN  IF next >= 0
             THEN hammingAtOffsetLoop(a, indexHashes, offset, i + 4, next)
             ELSE next

\* the offset left out: every record read as the first one
hammingDistanceAtStart(a, indexHashes, offset) ==
    hammingAtOffsetLoop(a, indexHashes, 0, 0, 0)

hammingDistanceAtOffset(a, indexHashes, offset) ==
    hammingAtOffsetLoop(a, indexHashes, offset, 0, 0)

\* limit = 10, threshold = 0.8 in the destructuring at line 198
DefaultLimit == 10
DefaultThreshold == Frac(8, 10)
OrDefault(opt, default) == IF opt.given THEN opt.value ELSE default

\* Math.floor((1 - threshold) * HASH_BYTES * 8)
thresholdDistOf(threshold) ==
    ((threshold.den - threshold.num) * HASH_BYTES * 8) \div threshold.den

\* a >= b on two fractions with positive denominators
FracGeq(a, b) == a.num * b.den >= b.num * a.den

\* lines 216-220 with both tests left out
acceptsEveryDistance(dist, threshold) == TRUE

\* lines 216-220: dist > thresholdDist skips, then similarity >= threshold
passesThreshold(dist, threshold) ==
    /\ ~(dist > thresholdDistOf(threshold))
    /\ FracGeq(OneMinusQuotient(dist, HASH_BYTES * 8), threshold)

\* lines 210-213, with the prefix test left out
skippedByPrefixNever(name, prefixSet) == FALSE

\* lines 210-213: if (prefixSet) { if (!prefix || !prefixSet.has(prefix)) continue }
skippedByPrefix(name, prefixSet) ==
    /\ prefixSet.given
    /\ \/ PrefixOf(name) = <<>>
       \/ ~SetHas(prefixSet.value, PrefixOf(name))

\* the loop of lines 207-223 from record i on
RECURSIVE scanRecords(_, _, _, _, _, _)
scanRecords(inputHash, idx, prefixSet, threshold, i, acc) ==
    IF i >= Len(idx.names) THEN acc
    ELSE LET name == idx.names[i + 1]
             dist == hammingDistanceAtOffset(inputHash, idx.hashes, i * HASH_BYTES)
             keep == /\ ~skippedByPrefix(name, prefixSet)
                     /\ passesThreshold(dist, threshold)
             found == [name |-> name,
                       similarity |-> OneMinusQuotient(dist, HASH_BYTES * 8)]
         IN  scanRecords(inputHash, idx, prefixSet, threshold, i + 1,
                         IF keep THEN Append(acc, found) ELSE acc)

\* the comparator of lines 227-241; a sort reads only the sign of what it
\* returns.  Math.abs(simDiff) > 0.001 on similarities k/1024
compareMatches(a, b, preferSet) ==
    LET simDiff == b.similarity.num - a.similarity.num
        absDiff == IF simDiff < 0 THEN 0 - simDiff ELSE simDiff
        aPreferred == SetHas(preferSet.value, PrefixOf(a.name))
        bPreferred == SetHas(preferSet.value, PrefixOf(b.name))
    IN  IF absDiff * 1000 > a.similarity.den
        THEN (IF simDiff < 0 THEN -1 ELSE 1)
        ELSE IF preferSet.given /\ aPreferred /\ ~bPreferred THEN -1
        ELSE IF preferSet.given /\ bPreferred /\ ~aPreferred THEN 1
        ELSE 0

(***************************************************************************)
(* Array.prototype.sort.  For a comparator that is a consistent order the  *)
(* result is the one stably sorted list; the comparator above is not       *)
(* (its ties are not transitive), and then the order is whatever the       *)
(* engine's algorithm does.  Both engines the package runs on are          *)
(* modelled: V8 (node) sorts arrays of fewer than 64 elements by finding   *)
(* the initial run and binary insertion; JavaScriptCore (bun) by a         *)
(* bottom-up merge sort.                                                   *)
(***************************************************************************)
\* V8 CountAndMakeRun: how far the initial run reaches
RECURSIVE v8RunLength(_, _, _, _, _)
v8RunLength(arr, preferSet, isDescending, idx, runLength) ==
    IF idx >= Len(arr) THEN runLength
    ELSE LET order == compareMatches(arr[idx + 1], arr[idx], preferSet)
         IN  IF (isDescending /\ order >= 0) \/ (~isDescending /\ order < 0)
             THEN runLength
             ELSE v8RunLength(arr, preferSet, isDescending, idx + 1, runLength + 1)

\* the first n elements reversed, the rest kept
ReverseRange(arr, n) ==
    [i \in 1..Len(arr) |-> IF i <= n THEN arr[n + 1 - i] ELSE arr[i]]

\* V8 BinaryInsertionSort: where the pivot goes in arr[0 .. right)
RECURSIVE v8BinarySearch(_, _, _, _, _)
v8BinarySearch(arr, preferSet, pivot, left, right) ==
    IF left >= right THEN left
    ELSE LET mid == left + ((right - left) \div 2)
         IN  IF compareMatches(pivot, arr[mid + 1], preferSet) < 0
             THEN v8BinarySearch(arr, preferSet, pivot, left, mid)
             ELSE v8BinarySearch(arr, preferSet, pivot, mid + 1, right)

\* arr[start] moved to position left, arr[left .. start) shifted right
MoveTo(arr, start, left) ==
    [i \in 1..Len(arr) |->
        IF i = left + 1 THEN arr[start + 1]
        ELSE IF i > left + 1 /\ i <= start + 1 THEN arr[i - 1]
        ELSE arr[i]]

RECURSIVE v8BinaryInsertionSort(_, _, _)
v8BinaryInsertionSort(arr, preferSet, start) ==
    IF start >= Len(arr) THEN arr
    ELSE v8BinaryInsertionSort(
             MoveTo(arr, start, v8BinarySearch(arr, preferSet, arr[start + 1], 0, start)),
             preferSet, start + 1)

v8Sort(arr, preferSet) ==
    IF Len(arr) < 2 THEN arr
    ELSE LET isDescending == compareMatches(arr[2], arr[1], preferSet) < 0
             runLength == v8RunLength(arr, preferSet, isDescending, 2, 2)
         IN  v8BinaryInsertionSort(
                 IF isDescending THEN ReverseRange(arr, runLength) ELSE arr,
                 preferSet, runLength)

\* JavaScriptCore merge: the right head goes first only when it compares
\* below the left head
RECURSIVE jscMerge(_, _, _)
jscMerge(left, right, preferSet) ==
    IF right = <<>> THEN left
    ELSE IF left = <<>> THEN right
    ELSE IF compareMatches(Head(right), Head(left), preferSet) < 0
         THEN <<Head(right)>> \o jscMerge(left, Tail(right), preferSet)
         ELSE <<Head(left)>> \o jscMerge(Tail(left), right, preferSet)

\* one pass: neighbouring runs of length width merged
RECURSIVE jscPass(_, _, _, _)
jscPass(src, width, srcIndex, preferSet) ==
    IF srcIndex >= Len(src) THEN <<>>
    ELSE LET leftEnd == Min(srcIndex + width, Len(src))
             rightEnd == Min(leftEnd + width, Len(src))
         IN  jscMerge(SubSeq(src, srcIndex + 1, leftEnd),
                      SubSeq(src, leftEnd + 1, rightEnd), preferSet)
             \o jscPass(src, width, srcIndex + 2 * width, preferSet)

RECURSIVE jscMergeSort(_, _, _)
jscMergeSort(src, width, preferSet) ==
    IF width >= Len(src) THEN src
    ELSE jscMergeSort(jscPass(src, width, 0, preferSet), 2 * width, preferSet)

Engines == {"v8", "jsc"}

\* matches.sort(comparator)
sortMatches(arr, preferSet, eng) ==
    IF eng = "v8" THEN v8Sort(arr, preferSet) ELSE jscMergeSort(arr, 1, preferSet)

\* arr.slice(0, end): a negative end counts from the end of the array
sliceFromStart(arr, end) ==
    SubSeq(arr, 1, IF end < 0 THEN Max(Len(arr) + end, 0) ELSE Min(end, Len(arr)))

\* the candidates of lines 202-223, in index order
candidatesOf(inputHash, idx, opts) ==
    scanRecords(inputHash, idx, SetOrNull(opts.prefixes),
                OrDefault(opts.threshold, DefaultThreshold), 0, <<>>)

\* lines 225-242 on the candidates
rankedOf(cands, opts, eng) ==
    sliceFromStart(sortMatches(cands, SetOrNull(opts.prefer), eng),
                   OrDefault(opts.limit, DefaultLimit))

\* computeDHash on the pictures and sizes the matcher is run with, computed
\* once
MatchSizes == {Omitted, Given(8)}
computeDHashOf == [img \in Images, arg \in MatchSizes |-> computeDHash(img, arg)]

\* the error of computeDHash swallowed: an empty list is returned
emptyListOnError(inputHash) == Returned("findMatches", <<>>)

\* line 200: await computeDHash(svg, size) is in no try block, so the
\* promise of findMatches is rejected with the error of computeDHash
rejectedWith(inputHash) == Thrown("findMatches", inputHash.msg)

\* findMatches up to the end of its loop (lines 198-223): the array matches
\* as the loop left it, empty when the loop was never entered
matchesOfLoop(img, idx, opts) ==
    LET inputHash == computeDHashOf[img, opts.size]
    IN  IF inputHash.threw THEN <<>>
        ELSE candidatesOf(inputHash.value, idx, opts)

\* findMatches (lines 193-243) with the array its loop left: what it returns
\* or throws
findMatches(img, cands, opts, eng) ==
    LET inputHash == computeDHashOf[img, opts.size]
    IN  IF inputHash.threw THEN rejectedWith(inputHash)
        ELSE Returned("findMatches", rankedOf(cands, opts, eng))

(***************************************************************************)
(* The indexes, queries and options findMatches is run with.  A record of  *)
(* the index is an icon of one set drawn as one picture; its fingerprint   *)
(* is the one buildIndex stores, computeDHash at the default size.  The    *)
(* query is the empty step picture, so that the record drawn as step k is  *)
(* at distance k and the ramp is far away.                                 *)
(***************************************************************************)
Digits == <<"0", "1", "2", "3", "4", "5", "6", "7", "8", "9">>

\* the name of record i of a set: "l:3", "m:3", "x3" (no colon), ":3"
\* (empty prefix)
NameOf(form, i) ==
    IF form = "bare" THEN <<"x", Digits[i + 1]>>
    ELSE IF form = "empty" THEN <<":", Digits[i + 1]>>
    ELSE <<form, ":", Digits[i + 1]>>

RecordKinds ==
    { [form |-> "m", picture |-> Picture("step", 0)],
      [form |-> "l", picture |-> Picture("step", 1)],
      [form |-> "l", picture |-> Picture("step", 2)],
      [form |-> "bare", picture |-> Picture("ramp", 0)],
      [form |-> "empty", picture |-> Picture("step", 0)] }

RECURSIVE concatHashes(_, _)
concatHashes(kinds, i) ==
    IF i > Len(kinds) THEN <<>>
    ELSE computeDHashOf[kinds[i].picture, Omitted].value \o concatHashes(kinds, i + 1)

\* the IconIndex of lines 175-178 that buildIndex writes for the records
IndexOf(kinds) ==
    [names |-> [i \in 1..Len(kinds) |-> NameOf(kinds[i].form, i)],
     hashes |-> concatHashes(kinds, 1)]

\* the records of an index are different icons, in every order
RecordLists ==
    {kinds \in UNION {[1..n -> RecordKinds] : n \in 0..MaxRecords} :
        \A i, j \in 1..Len(kinds) : i # j => kinds[i] # kinds[j]}

Indexes == {IndexOf(kinds) : kinds \in RecordLists}

Queries == {Picture("step", 0), InvalidImage}

Thresholds == {Frac(1, 1), Frac(999, 1000), Frac(998, 1000), Frac(0, 1)}
Limits == {-1, 0, 1, 2}
PrefixLists == {<<>>, << <<"l">> >>}
PreferLists == {<< <<"l">> >>, << <<"m">> >>}

OptionsSet ==
    {[DefaultOptions EXCEPT !.threshold = Given(v)] : v \in Thresholds}
    \cup {[DefaultOptions EXCEPT !.prefixes = Given(v)] : v \in PrefixLists}
    \cup {[DefaultOptions EXCEPT !.limit = Given(v)] : v \in Limits}
    \cup {[DefaultOptions EXCEPT !.prefer = Given(v), !.threshold = t] :
            v \in PreferLists, t \in {OmittedFraction, Given(Frac(998, 1000))}}
    \cup {DefaultOptions,
          [DefaultOptions EXCEPT !.size = Given(8)],
          [DefaultOptions EXCEPT !.prefixes = Given(<< <<"l">> >>),
                                 !.threshold = Given(Frac(0, 1))],
          [size |-> Given(8), limit |-> Given(2), threshold |-> Given(Frac(0, 1)),
           prefixes |-> Given(<< <<"l">>, <<"m">> >>), prefer |-> Given(<< <<"l">> >>)]}

InitMatch ==
    /\ index \in Indexes
    /\ query \in Queries
    /\ options \in OptionsSet
    /\ engine \in Engines
    /\ matches = NoCall
    /\ candidates = <<>>
    /\ IdleCodec
    /\ IdleHash
    /\ IdleRest

\* await findMatches(query, index, options)
CallFindMatches ==
    /\ matches = NoCall
    /\ candidates' = matchesOfLoop(query, index, options)
    /\ matches' = findMatches(query, candidates', options, engine)
    /\ UNCHANGED <<index, query, options, engine>>
    /\ UNCHANGED <<varsCodec, varsHash, varsRest>>

NextMatch == CallFindMatches

SpecMatch == InitMatch /\ [][NextMatch]_vars

(***************************************************************************)
(* The index files: loadIndex.                                             *)
(*                                                                         *)
(* A string is a sequence of characters, a file a sequence of bytes.  The  *)
(* characters that occur are ASCII, one byte each in UTF-8.  gzip is kept  *)
(* as the data it holds: gunzipSync gives the data back for a gzip file    *)
(* and throws for anything else.                                           *)
(***************************************************************************)
NewLine == "\n"
Alphabet == {NewLine, ":", "a", "b", "l", "m", "x",
             "0", "1", "2", "3", "4", "5", "6", "7", "8", "9"}

\* the UTF-8 byte of a character
CharCode(c) ==
    CASE c = NewLine -> 10
      [] c = ":" -> 58
      [] c = "a" -> 97
      [] c = "b" -> 98
      [] c = "l" -> 108
      [] c = "m" -> 109
      [] c = "x" -> 120
      [] c = "0" -> 48 [] c = "1" -> 49 [] c = "2" -> 50 [] c = "3" -> 51
      [] c = "4" -> 52 [] c = "5" -> 53 [] c = "6" -> 54 [] c = "7" -> 55
      [] c = "8" -> 56 [] c = "9" -> 57

\* the character of a byte; "?" stands for every other character
CodeChar(b) ==
    IF \E c \in Alphabet : CharCode(c) = b
    THEN CHOOSE c \in Alphabet : CharCode(c) = b
    ELSE "?"

\* Buffer.from(str) and buf.toString('utf-8')
Utf8Encode(str) == [i \in 1..Len(str) |-> CharCode(str[i])]
Utf8Decode(bytes) == [i \in 1..Len(bytes) |-> CodeChar(bytes[i])]

\* gzipSync(data)
gzipSync(data) == [gzip |-> TRUE, data |-> data]
\* a file that is no gzip stream
Garbage == [gzip |-> FALSE, data |-> <<31, 139>>]

\* str.split('\n') on str[lo .. hi]: the pieces between the newlines, empty
\* pieces included (the halves are split and the piece across the cut joined)
RECURSIVE splitLines(_, _, _)
splitLines(str, lo, hi) ==
    IF lo > hi THEN << <<>> >>
    ELSE IF lo = hi
         THEN (IF str[lo] = NewLine THEN << <<>>, <<>> >> ELSE << <<str[lo]>> >>)
    ELSE LET mid == (lo + hi) \div 2
             left == splitLines(str, lo, mid)
             right == splitLines(str, mid + 1, hi)
         IN  SubSeq(left, 1, Len(left) - 1)
             \o << left[Len(left)] \o right[1] >>
             \o Tail(right)

\* Boolean(piece): an empty string is dropped by filter(Boolean)
NonEmpty(piece) == piece # <<>>

\* filter(Boolean) left out
keepAllLines(pieces) == pieces

\* .filter(Boolean)
filterBoolean(pieces) == SelectSeq(pieces, NonEmpty)

\* loadIndex (lines 183-188): gunzipSync throws on a file that is no gzip
loadIndex(namesFile, hashesFile) ==
    IF ~namesFile.gzip \/ ~hashesFile.gzip
    THEN Thrown("loadIndex", "incorrect header check")
    ELSE Returned("loadIndex",
             [names |-> filterBoolean(splitLines(Utf8Decode(namesFile.data), 1,
                                                 Len(namesFile.data))),
              hashes |-> hashesFile.data])

(***************************************************************************)
(* Building an index: createSpriteSheet, extractHashesFromSprite and       *)
(* buildIndex.                                                             *)
(*                                                                         *)
(* An icon is [name, svg].  The rasterizer draws the sprite sheet of a     *)
(* batch cell by cell, each icon in its cell as it would be drawn alone in *)
(* a frame of the cell's size; an icon it cannot draw alone leaves its     *)
(* cell white.  Whether it rejects a whole sprite sheet is the             *)
(* environment's choice, held in spriteFails.                              *)
(***************************************************************************)
\* const SPRITE_COLS = 50
SPRITE_COLS == 50
\* the sprite rows of a full batch, in batchSize = SPRITE_COLS * 20
SpriteRowsPerBatch == 20
batchSize == SPRITE_COLS * SpriteRowsPerBatch

Icon(name, img) == [name |-> name, svg |-> img]

\* Math.ceil(a / b) for a >= 0, b > 0
CeilDiv(a, b) == (a + b - 1) \div b

\* createSpriteSheet, lines 260-261 with the height taken for the width:
\* the rows of the sheet iconSize apart
sheetYBySize(i, cols, iconSize) == (i \div cols) * iconSize

\* createSpriteSheet, lines 260-261: where the content of icon i (0, 1, ...)
\* is moved to by translate(x, y)
sheetX(i, cols, iconSize) == (i % cols) * iconSize
sheetY(i, cols, iconSize) == (i \div cols) * (iconSize - 1)

\* createSpriteSheet, lines 256 and 277-278: width and height of the document
sheetWidth(cols, iconSize) == cols * iconSize
sheetHeight(count, cols, iconSize) == CeilDiv(count, cols) * (iconSize - 1)

\* the grey value of pixel (x, y) of the document createSpriteSheet makes of
\* the batch: icon i scaled by min(iconSize / vbW, (iconSize - 1) / vbH)
\* (line 273) with its corner at (sheetX, sheetY); white where no icon is
\* drawn.  The icon whose content reaches (x, y) is the one of the cell
\* that column x and row y are in.
SheetPixel(batch, cols, iconSize, x, y) ==
    LET i == (y \div (iconSize - 1)) * cols + (x \div iconSize)
    IN  IF i < Len(batch) /\ batch[i + 1].svg.kind # "invalid"
        THEN PlacedAt(batch[i + 1].svg,
                      FitBox(batch[i + 1].svg, iconSize, iconSize - 1),
                      x, y, sheetX(i, cols, iconSize), sheetY(i, cols, iconSize))
        ELSE 255

\* the buffer sharp(sprite).resize(spriteWidth, spriteHeight, { fit: 'fill' })
\* gives (lines 353-358), kept as the sheet it is the raster of and its size
spriteRaster(batch, cols, iconSize, spriteWidth, spriteHeight) ==
    [batch |-> batch, cols |-> cols, iconSize |-> iconSize,
     width |-> spriteWidth, height |-> spriteHeight]

\* data.length
RasterLength(data) == data.width * data.height

\* data[p] for p inside the buffer (0-based, row-major): fit 'fill'
\* stretches the document to the size asked for
SpritePixel(data, p) ==
    SheetPixel(data.batch, data.cols, data.iconSize,
               ((p % data.width) * sheetWidth(data.cols, data.iconSize))
                   \div data.width,
               ((p \div data.width)
                    * sheetHeight(Len(data.batch), data.cols, data.iconSize))
                   \div data.height)

\* data[p]! < data[q]! ; a read outside the raster gives undefined, and a
\* comparison with undefined is false
SpriteLess(data, p, q) ==
    /\ p >= 0 /\ p < RasterLength(data)
    /\ q >= 0 /\ q < RasterLength(data)
    /\ SpritePixel(data, p) < SpritePixel(data, q)

\* the body of the inner loop of extractHashesFromSprite, lines 308-315
spriteStep(less, st) ==
    LET b == IF less THEN Or8(st.byte, 128 \div (2 ^ st.bitInByte)) ELSE st.byte
    IN  IF st.bitInByte + 1 = 8
        THEN [hash |-> WriteByte(st.hash, st.byteIndex, b),
              byteIndex |-> st.byteIndex + 1, byte |-> 0, bitInByte |-> 0]
        ELSE [hash |-> st.hash, byteIndex |-> st.byteIndex,
              byte |-> b, bitInByte |-> st.bitInByte + 1]

\* the inner loop run over the whole width of the cell
spriteColumnBoundByWidth(iconWidth, iconHeight) == iconWidth

\* for (let x = 0; x < iconHeight; x++): the bound of x
spriteColumnBound(iconWidth, iconHeight) == iconHeight

\* for (let x = 0; x < iconHeight; x++)
\* (spriteColumnsOn goes on from the state the step at x gave; its test on
\* byteIndex is always true and makes TLC compute that state first)
RECURSIVE spriteColumns(_, _, _, _, _, _)
RECURSIVE spriteColumnsOn(_, _, _, _, _, _)
spriteColumnsOn(data, iconWidth, iconHeight, rowStart, x, next) ==
    IF next.byteIndex >= 0
    THEN spriteColumns(data, iconWidth, iconHeight, rowStart, x + 1, next)
    ELSE next
spriteColumns(data, iconWidth, iconHeight, rowStart, x, st) ==
    IF x >= spriteColumnBound(iconWidth, iconHeight) THEN st
    ELSE spriteColumnsOn(data, iconWidth, iconHeight, rowStart, x,
                         spriteStep(SpriteLess(data, rowStart + x, rowStart + x + 1),
                                    st))

\* for (let y = 0; y < iconHeight; y++) { rowStart = (startY + y) * spriteWidth + startX ... }
RECURSIVE spriteRows(_, _, _, _, _, _, _, _)
RECURSIVE spriteRowsOn(_, _, _, _, _, _, _, _)
spriteRowsOn(data, spriteWidth, iconWidth, iconHeight, startX, startY, y, next) ==
    IF next.byteIndex >= 0
    THEN spriteRows(data, spriteWidth, iconWidth, iconHeight, startX, startY,
                    y + 1, next)
    ELSE next
spriteRows(data, spriteWidth, iconWidth, iconHeight, startX, startY, y, st) ==
    IF y >= iconHeight THEN st
    ELSE spriteRowsOn(data, spriteWidth, iconWidth, iconHeight, startX, startY, y,
                      spriteColumns(data, iconWidth, iconHeight,
                                    (startY + y) * spriteWidth + startX, 0, st))

\* extractHashesFromSprite, lines 296-297: the corner of cell i (0, 1, ...)
cellStartX(i, cols, iconWidth) == (i % cols) * iconWidth
cellStartY(i, cols, iconHeight) == (i \div cols) * iconHeight

\* the positions of data that lines 304-308 read for the cell with its
\* corner at (startX, startY)
cellReads(spriteWidth, iconWidth, iconHeight, startX, startY) ==
    UNION {{(startY + y) * spriteWidth + startX + x,
            (startY + y) * spriteWidth + startX + x + 1} :
              y \in 0..(iconHeight - 1),
              x \in 0..(spriteColumnBound(iconWidth, iconHeight) - 1)}

\* extractHashesFromSprite (lines 285-323), on the raster of the batch's
\* sprite sheet: one 128-byte hash per icon
extractHashesFromSprite(data, spriteWidth, count, cols, iconWidth, iconHeight) ==
    [n \in 1..count |->
        spriteRows(data, spriteWidth, iconWidth, iconHeight,
                   cellStartX(n - 1, cols, iconWidth),
                   cellStartY(n - 1, cols, iconHeight), 0,
                   [hash |-> Filled(HASH_BYTES, 0), byteIndex |-> 0,
                    byte |-> 0, bitInByte |-> 0]).hash]

\* buildIndex, lines 349-351: the size of the raster asked of sharp
spriteWidthOf(n) == SPRITE_COLS * (n + 1)
spriteHeightOf(count, n) == CeilDiv(count, SPRITE_COLS) * n

\* lines 346-358: the sheet of the batch composed and rasterized
spriteData(batch, n) ==
    spriteRaster(batch, SPRITE_COLS, n + 1,
                 spriteWidthOf(n), spriteHeightOf(Len(batch), n))

\* the try block of lines 344-373: the names and hashes of the whole batch
batchBySprite(batch, n) ==
    [names |-> [j \in 1..Len(batch) |-> batch[j].name],
     hashes |-> extractHashesFromSprite(spriteData(batch, n), spriteWidthOf(n),
                                        Len(batch), SPRITE_COLS, n + 1, n)]

\* lines 378-380 on the results of computeDHash for the icons of the batch:
\* the names and the hashes of the icons in kept (positions in the batch)
pushHashed(batch, results, kept) ==
    [names |-> [j \in 1..Len(kept) |-> batch[kept[j]].name],
     hashes |-> [j \in 1..Len(kept) |-> results[kept[j]].value]]

\* the positions of 1..n, in order, whose result is no error
positionsHashed(results, n) ==
    SelectSeq([j \in 1..n |-> j], LAMBDA j : ~results[j].threw)

\* the positions before the first error
positionsBeforeFailure(results, n) ==
    SelectSeq([j \in 1..n |-> j], LAMBDA j : \A k \in 1..j : ~results[k].threw)

\* await computeDHash(icon.svg, size) for every icon of the batch
hashEach(batch, n) == [j \in 1..Len(batch) |-> computeDHash(batch[j].svg, Given(n))]

\* lines 376-384 on the results of computeDHash
keepHashed(batch, results) ==
    pushHashed(batch, results, positionsHashed(results, Len(batch)))

\* the fallback that stops at the first icon that fails
batchOneByOneUntilFailure(batch, n) ==
    pushHashed(batch, hashEach(batch, n),
               positionsBeforeFailure(hashEach(batch, n), Len(batch)))

\* the catch block of lines 374-385: every icon hashed alone, the icons
\* whose computeDHash throws skipped
batchOneByOne(batch, n) == keepHashed(batch, hashEach(batch, n))

\* names.join('\n') on names[lo .. hi]
RECURSIVE joinLines(_, _, _)
joinLines(names, lo, hi) ==
    IF lo > hi THEN <<>>
    ELSE IF lo = hi THEN names[lo]
    ELSE joinLines(names, lo, (lo + hi) \div 2)
         \o <<NewLine>>
         \o joinLines(names, (lo + hi) \div 2 + 1, hi)

\* Buffer.concat(buffers) on buffers[lo .. hi]
RECURSIVE concatBuffers(_, _, _)
concatBuffers(buffers, lo, hi) ==
    IF lo > hi THEN <<>>
    ELSE IF lo = hi THEN buffers[lo]
    ELSE concatBuffers(buffers, lo, (lo + hi) \div 2)
         \o concatBuffers(buffers, (lo + hi) \div 2 + 1, hi)

\* the call that reports the end of the batch's window, not the icons there are
progressCallWindowEnd(i, total) == <<i + batchSize, total>>

\* onProgress?.(Math.min(i + batchSize, icons.length), icons.length)
progressCall(i, total) == <<Min(i + batchSize, total), total>>

\* the entries of a batch pushed last icon first
batchDoneBackwards(acc, got, call) ==
    [names |-> acc.names \o [j \in 1..Len(got.names) |->
                                got.names[Len(got.names) + 1 - j]],
     hashBuffers |-> acc.hashBuffers \o [j \in 1..Len(got.hashes) |->
                                           got.hashes[Len(got.hashes) + 1 - j]],
     calls |-> Append(acc.calls, call)]

\* lines 370-373 / 379-380 and 387: the names and hashes of a batch pushed,
\* the end of the batch reported
batchDone(acc, got, call) ==
    [names |-> acc.names \o got.names,
     hashBuffers |-> acc.hashBuffers \o got.hashes,
     calls |-> Append(acc.calls, call)]

\* the try block, or the catch block when the sprite sheet is rejected
batchOf(batch, n, spriteFailed) ==
    IF spriteFailed THEN batchOneByOne(batch, n) ELSE batchBySprite(batch, n)

\* the loop of lines 341-388 from batch start i on; acc holds names,
\* hashBuffers and the onProgress calls made
RECURSIVE buildBatches(_, _, _, _, _)
buildBatches(list, n, fails, i, acc) ==
    IF i >= Len(list) THEN acc
    ELSE buildBatches(list, n, fails, i + batchSize,
             batchDone(acc,
                       batchOf(SubSeq(list, i + 1, Min(i + batchSize, Len(list))),
                               n, (i \div batchSize) \in fails),
                       progressCall(i, Len(list))))

\* lines 390-393 on what the loop gathered, with the onProgress calls made
indexOf(done) ==
    [result |-> Returned("buildIndex",
                   [names |-> joinLines(done.names, 1, Len(done.names)),
                    hashes |-> concatBuffers(done.hashBuffers, 1,
                                             Len(done.hashBuffers))]),
     calls |-> done.calls]

\* buildIndex (lines 329-394): the result and the onProgress calls
buildIndex(list, sizeArg, fails) ==
    indexOf(buildBatches(list, SizeOrDefault(sizeArg), fails, 0,
                         [names |-> <<>>, hashBuffers |-> <<>>, calls |-> <<>>]))

(***************************************************************************)
(* The icon lists buildIndex is run with and the files loadIndex is run    *)
(* with.  Short lists hold every mix of icons the rasterizer draws and     *)
(* rejects; long lists fill whole batches, with rejected icons at the      *)
(* batch borders.  The index files are the ones the build script writes    *)
(* (scripts/build-index.ts: gzipSync of both outputs), or any pair of      *)
(* files found on disk.                                                    *)
(***************************************************************************)
\* the decimal digits of n >= 0
RECURSIVE Decimal(_)
Decimal(n) ==
    IF n < 10 THEN <<Digits[n + 1]>>
    ELSE Decimal(n \div 10) \o <<Digits[(n % 10) + 1]>>

\* the name of the icon at position i of a list: "l:1", "l:2", ...
IconName(i) == <<"l", ":">> \o Decimal(i)

IconImages == {Picture("step", 1), Picture("ramp", 0), InvalidImage}

ShortLists ==
    {[i \in 1..Len(images) |-> Icon(IconName(i), images[i])] :
        images \in UNION {[1..n -> IconImages] : n \in 0..MaxIcons}}

\* a list of total icons, the ones at the positions in bad not drawable
LongList(total, bad) ==
    [i \in 1..total |->
        Icon(IconName(i), IF i \in bad THEN InvalidImage ELSE Picture("step", 1))]

LongTotals == {batchSize, batchSize + 1, MaxBatches * batchSize + 1}

LongLists ==
    {LongList(total, bad) :
        total \in LongTotals,
        bad \in {{batchSize}, {1, batchSize + 1}}}

\* the size the long lists are hashed at: 4 x 4 comparisons per icon
LongListSize == 4

\* names.txt.gz and hashes.bin.gz as found on disk
NamesTexts ==
    { <<>>,
      IconName(1),
      IconName(1) \o <<NewLine>> \o IconName(2),
      IconName(1) \o <<NewLine>> \o IconName(2) \o <<NewLine>>,
      <<NewLine>> \o IconName(1) \o <<NewLine, NewLine>> }
NamesFiles == {gzipSync(Utf8Encode(text)) : text \in NamesTexts} \cup {Garbage}
HashesFiles ==
    {gzipSync(Filled(len, 0)) :
        len \in {0, HASH_BYTES - 1, HASH_BYTES, HASH_BYTES + 1, 2 * HASH_BYTES}}
    \cup {Garbage}

InitIndex ==
    /\ \/ /\ icons \in ShortLists
          /\ buildSize \in {Omitted, Given(LongListSize)}
          /\ spriteFails \in SUBSET {0}
          /\ namesGz = NoFile
          /\ hashesGz = NoFile
       \/ /\ icons \in LongLists
          /\ buildSize = Given(LongListSize)
          /\ spriteFails \in {{}, {0}, 0..MaxBatches}
          /\ namesGz = NoFile
          /\ hashesGz = NoFile
       \/ /\ icons = <<>>
          /\ buildSize = Omitted
          /\ spriteFails = {}
          /\ namesGz \in NamesFiles
          /\ hashesGz \in HashesFiles
    /\ built = NoCall
    /\ progress = <<>>
    /\ loaded = NoCall
    /\ IdleCodec
    /\ IdleHash
    /\ IdleMatch
    /\ IdleLater

\* await buildIndex(icons, size, onProgress)
CallBuildIndex ==
    /\ built = NoCall
    /\ \E ended \in {buildIndex(icons, buildSize, spriteFails)} :
          /\ built' = ended.result
          /\ progress' = ended.calls
    /\ UNCHANGED <<icons, buildSize, spriteFails, namesGz, hashesGz, loaded>>
    /\ UNCHANGED <<varsCodec, varsHash, varsMatch, varsLater>>

\* the build script writes gzipSync(names) and gzipSync(hashes)
\* (scripts/build-index.ts, lines 117-124)
SaveIndex ==
    /\ built.op = "buildIndex"
    /\ ~built.threw
    /\ namesGz = NoFile
    /\ namesGz' = gzipSync(Utf8Encode(built.value.names))
    /\ hashesGz' = gzipSync(built.value.hashes)
    /\ UNCHANGED <<icons, buildSize, spriteFails, built, progress, loaded>>
    /\ UNCHANGED <<varsCodec, varsHash, varsMatch, varsLater>>

\* loadIndex(readFileSync(names.txt.gz), readFileSync(hashes.bin.gz))
CallLoadIndex ==
    /\ loaded = NoCall
    /\ namesGz # NoFile
    /\ hashesGz # NoFile
    /\ loaded' = loadIndex(namesGz, hashesGz)
    /\ UNCHANGED <<icons, buildSize, spriteFails, built, progress, namesGz, hashesGz>>
    /\ UNCHANGED <<varsCodec, varsHash, varsMatch, varsLater>>

NextIndex == CallBuildIndex \/ SaveIndex \/ CallLoadIndex

SpecIndex == InitIndex /\ [][NextIndex]_vars

(***************************************************************************)
(* fetchIconSvg (lines 158-170): the name is split at its colons, the      *)
(* first two pieces are taken as prefix and icon, and the icon is asked    *)
(* of api.iconify.design.  SpecFetch calls it once on every short name     *)
(* and every answer of the host.                                           *)
(***************************************************************************)
Colon == ":"

\* str.split(sep) on str[lo .. hi] for a one-character separator: the pieces
\* between the separators, empty pieces included
RECURSIVE split(_, _, _, _)
split(str, sep, lo, hi) ==
    IF lo > hi THEN << <<>> >>
    ELSE IF lo = hi
         THEN (IF str[lo] = sep THEN << <<>>, <<>> >> ELSE << <<str[lo]>> >>)
    ELSE LET mid == (lo + hi) \div 2
             left == split(str, sep, lo, mid)
             right == split(str, sep, mid + 1, hi)
         IN  SubSeq(left, 1, Len(left) - 1)
             \o << left[Len(left)] \o right[1] >>
             \o Tail(right)

\* const [prefix, icon] = parts: an element past the end is undefined
Destructure(parts, i) == IF i <= Len(parts) THEN Defined(parts[i]) ELSE Undefined

\* !x for a string or undefined
Not(x) == ~x.defined \/ x.text = <<>>

\* `https://api.iconify.design/${prefix}/${icon}.svg`
IconUrl(prefix, icon) ==
    <<"https://api.iconify.design/">> \o prefix \o <<"/">> \o icon \o <<".svg">>

\* fetchIconSvg with the requests it made
fetchIconSvg(name, up) ==
    LET parts == split(name, Colon, 1, Len(name))
        prefix == Destructure(parts, 1)
        icon == Destructure(parts, 2)
    IN  IF Not(prefix) \/ Not(icon)
        THEN [requests |-> <<>>,
              result |-> Thrown("fetchIconSvg", "Invalid icon name")]
        ELSE [requests |-> << IconUrl(prefix.text, icon.text) >>,
              result |->
                  IF up.failed THEN Thrown("fetchIconSvg", "fetch failed")
                  ELSE IF ~up.ok THEN Thrown("fetchIconSvg", "Failed to fetch icon")
                  ELSE Returned("fetchIconSvg", up.body)]

NameChars == {"a", "7", "-", Colon, "/"}
Names == UNION {[1..n -> NameChars] : n \in 0..MaxNameLen}
Upstreams == {Response(200, "<svg/>"), Response(404, "Not found"), NetworkDown}

InitFetch ==
    /\ fetchName \in Names
    /\ upstream \in Upstreams
    /\ requests = <<>>
    /\ fetched = NoCall
    /\ IdleCodec /\ IdleHash /\ IdleMatch /\ IdleIndex /\ IdleCache /\ IdleCli
    /\ IdleBuild /\ IdleQueries

CallFetchIconSvg ==
    /\ fetched = NoCall
    /\ LET call == fetchIconSvg(fetchName, upstream)
       IN  /\ fetched' = call.result
           /\ requests' = call.requests
    /\ UNCHANGED <<fetchName, upstream>>
    /\ UNCHANGED <<varsCodec, varsHash, varsMatch, varsIndex, varsCache, varsCli, varsBuild, varsQueries>>

NextFetch == CallFetchIconSvg

SpecFetch == InitFetch /\ [][NextFetch]_vars

(***************************************************************************)
(* download.ts: the cache of downloaded indexes.  ensureIndex is an async  *)
(* function: between its awaits (the request for the releases and the      *)
(* three file downloads of downloadIndex) the other calls run, clearCache  *)
(* included.  A download writes into the cache file by file.               *)
(***************************************************************************)
existsSync(disk, path) == disk[path].exists
readFileSync(disk, path) == disk[path].data

\* existsSync(paths.names) || existsSync(paths.hashes)
isIndexDownloadedEither(disk, variant) ==
    LET paths == getIndexPaths(variant)
    IN  existsSync(disk, paths.names) \/ existsSync(disk, paths.hashes)

\* isIndexDownloaded (lines 31-34)
isIndexDownloaded(disk, variant) ==
    LET paths == getIndexPaths(variant)
    IN  existsSync(disk, paths.names) /\ existsSync(disk, paths.hashes)

\* null, and { namesGz, hashesGz }
Null == [null |-> TRUE, namesGz |-> <<>>, hashesGz |-> <<>>]
CachedIndex(namesBuf, hashesBuf) ==
    [null |-> FALSE, namesGz |-> namesBuf, hashesGz |-> hashesBuf]

\* the cache never read
loadCachedIndexNever(disk, variant) == Null

\* loadCachedIndex (lines 94-106)
loadCachedIndex(disk, variant) ==
    IF ~isIndexDownloaded(disk, variant) THEN Null
    ELSE LET paths == getIndexPaths(variant)
         IN  CachedIndex(readFileSync(disk, paths.names),
                         readFileSync(disk, paths.hashes))

\* clearCache (lines 131-136): rmSync(CACHE_DIR, { recursive: true })
clearCache(disk) == EmptyCache

\* what the release serves as `${variant}-${file}`, and what a file written
\* by hand or cut short holds
Asset(variant, file) == <<variant, "-", file>>
ByHand == <<"by hand">>
CutShort == <<>>

\* how a request ends: the releases list (lines 49-63) and a file download
\* (lines 36-47); an aborted stream leaves the file createWriteStream made
TagOutcomes == {"ok", "status 403", "no index release"}
FileOutcomes == {"ok", "status 404", "aborted"}

\* downloadFile (lines 36-47) to destPath: the disk after it and its error
downloadFile(disk, body, destPath, outcome) ==
    IF outcome = "status 404"
    THEN [disk |-> disk, threw |-> TRUE, msg |-> "Failed to download"]
    ELSE IF outcome = "aborted"
    THEN [disk |-> [disk EXCEPT ![destPath] = FileOf(CutShort)],
          threw |-> TRUE, msg |-> "aborted"]
    ELSE [disk |-> [disk EXCEPT ![destPath] = FileOf(body)],
          threw |-> FALSE, msg |-> ""]

\* the file downloadIndex downloads at each of its awaits (lines 81-87)
FileAt(pc) ==
    IF pc = "names" THEN "names.txt.gz"
    ELSE IF pc = "hashes" THEN "hashes.bin.gz"
    ELSE "metadata.json"
PathAt(variant, pc) ==
    IF pc = "names" THEN getIndexPaths(variant).names
    ELSE IF pc = "hashes" THEN getIndexPaths(variant).hashes
    ELSE getIndexPaths(variant).metadata
AfterFile(pc) ==
    IF pc = "names" THEN "hashes" ELSE IF pc = "hashes" THEN "metadata" ELSE "idle"

\* ensureIndex, lines 119-124: after the download
ensureIndexAfterDownload(disk, variant) ==
    LET result == loadCachedIndex(disk, variant)
    IN  IF result.null
        THEN Thrown("ensureIndex", "Failed to load index after download")
        ELSE Returned("ensureIndex", result)

InitCache ==
    /\ IdleCache
    /\ IdleCodec /\ IdleHash /\ IdleMatch /\ IdleIndex /\ IdleFetch /\ IdleCli
    /\ IdleBuild /\ IdleQueries

\* isIndexDownloaded(variant)
CallIsIndexDownloaded ==
    /\ calls < MaxCalls
    /\ \E variant \in Variants :
          /\ answer' = Returned("isIndexDownloaded", isIndexDownloaded(cache, variant))
          /\ asked' = variant
    /\ calls' = calls + 1
    /\ UNCHANGED <<cache, ensure, ensured, writes>>
    /\ UNCHANGED <<varsCodec, varsHash, varsMatch, varsIndex, varsFetch, varsCli, varsBuild, varsQueries>>

\* loadCachedIndex(variant)
CallLoadCachedIndex ==
    /\ calls < MaxCalls
    /\ \E variant \in Variants :
          /\ answer' = Returned("loadCachedIndex", loadCachedIndex(cache, variant))
          /\ asked' = variant
    /\ calls' = calls + 1
    /\ UNCHANGED <<cache, ensure, ensured, writes>>
    /\ UNCHANGED <<varsCodec, varsHash, varsMatch, varsIndex, varsFetch, varsCli, varsBuild, varsQueries>>

\* ensureIndex(variant), lines 112-117: up to the first await of downloadIndex
\* (the request of getLatestIndexTag)
CallEnsureIndex ==
    /\ calls < MaxCalls
    /\ ensure.pc = "idle"
    /\ calls' = calls + 1
    /\ \E variant \in Variants :
          LET cached == loadCachedIndex(cache, variant)
          IN  IF ~cached.null
              THEN /\ answer' = Returned("ensureIndex", cached)
                   /\ asked' = variant
                   /\ ensure' = [pc |-> "idle", variant |-> variant, downloads |-> 0]
                   /\ ensured' = ensured \cup {variant}
              ELSE /\ ensure' = [pc |-> "tag", variant |-> variant, downloads |-> 1]
                   /\ UNCHANGED <<answer, asked, ensured>>
    /\ UNCHANGED <<cache, writes>>
    /\ UNCHANGED <<varsCodec, varsHash, varsMatch, varsIndex, varsFetch, varsCli, varsBuild, varsQueries>>

\* getLatestIndexTag (lines 49-63) answered
ReleasesAnswered ==
    /\ ensure.pc = "tag"
    /\ \E outcome \in TagOutcomes :
          IF outcome = "ok"
          THEN /\ ensure' = [ensure EXCEPT !.pc = "names"]
               /\ UNCHANGED <<answer, asked>>
          ELSE /\ ensure' = [ensure EXCEPT !.pc = "idle"]
               /\ answer' = Thrown("ensureIndex",
                                   IF outcome = "status 403"
                                   THEN "Failed to fetch releases"
                                   ELSE "No index release found")
               /\ asked' = ensure.variant
    /\ UNCHANGED <<cache, ensured, calls, writes>>
    /\ UNCHANGED <<varsCodec, varsHash, varsMatch, varsIndex, varsFetch, varsCli, varsBuild, varsQueries>>

\* one downloadFile of downloadIndex (lines 81-87) ended; after the last one
\* the metadata is parsed (lines 90-91) and ensureIndex goes on (lines 119-124)
FileDownloaded ==
    /\ ensure.pc \in {"names", "hashes", "metadata"}
    /\ \E outcome \in FileOutcomes, wellFormed \in BOOLEAN :
          LET variant == ensure.variant
              body == IF wellFormed THEN Asset(variant, FileAt(ensure.pc)) ELSE ByHand
              file == downloadFile(cache, body, PathAt(variant, ensure.pc), outcome)
              ended == IF file.threw THEN Thrown("ensureIndex", file.msg)
                       ELSE IF ~wellFormed THEN Thrown("ensureIndex", "JSON Parse error")
                       ELSE ensureIndexAfterDownload(file.disk, variant)
          IN  /\ (ensure.pc # "metadata" \/ outcome # "ok") => wellFormed
              /\ cache' = file.disk
              /\ IF ~file.threw /\ ensure.pc # "metadata"
                 THEN /\ ensure' = [ensure EXCEPT !.pc = AfterFile(ensure.pc)]
                      /\ UNCHANGED <<answer, asked, ensured>>
                 ELSE /\ ensure' = [ensure EXCEPT !.pc = "idle"]
                      /\ answer' = ended
                      /\ asked' = variant
                      /\ ensured' = IF ended.threw THEN ensured
                                    ELSE ensured \cup {variant}
    /\ UNCHANGED <<calls, writes>>
    /\ UNCHANGED <<varsCodec, varsHash, varsMatch, varsIndex, varsFetch, varsCli, varsBuild, varsQueries>>

\* clearCache()
CallClearCache ==
    /\ calls < MaxCalls
    /\ calls' = calls + 1
    /\ cache' = clearCache(cache)
    /\ answer' = Returned("clearCache", 0)
    /\ ensured' = {}
    /\ UNCHANGED <<ensure, asked, writes>>
    /\ UNCHANGED <<varsCodec, varsHash, varsMatch, varsIndex, varsFetch, varsCli, varsBuild, varsQueries>>

\* an index file put into the cache by hand (as tests/cli.test.ts does)
WriteByHand ==
    /\ writes < MaxWrites
    /\ writes' = writes + 1
    /\ \E variant \in Variants :
          \E path \in {getIndexPaths(variant).names, getIndexPaths(variant).hashes} :
              cache' = [cache EXCEPT ![path] = FileOf(ByHand)]
    /\ UNCHANGED <<ensure, answer, asked, ensured, calls>>
    /\ UNCHANGED <<varsCodec, varsHash, varsMatch, varsIndex, varsFetch, varsCli, varsBuild, varsQueries>>

NextCache ==
    \/ CallIsIndexDownloaded
    \/ CallLoadCachedIndex
    \/ CallEnsureIndex
    \/ ReleasesAnswered
    \/ FileDownloaded
    \/ CallClearCache
    \/ WriteByHand

SpecCache == InitCache /\ [][NextCache]_vars

(***************************************************************************)
(* cli.ts: run (lines 60-139).  The process is followed statement by       *)
(* statement in a record: the svg read so far, what was printed, the calls *)
(* made, the exit code, and whether the process has ended.  What the       *)
(* network, the file system and the index answer is given by world.        *)
(***************************************************************************)
\* process.exitCode = code: the process goes on
setExitCode(st, code) == [st EXCEPT !.code = code]

\* process.exit(code): the process ends here
processExit(st, code) == [st EXCEPT !.code = code, !.done = TRUE]

consoleError(st, line) == [st EXCEPT !.stderr = Append(@, line)]
consoleLog(st, line) == [st EXCEPT !.stdout = Append(@, line)]
called(st, name) == [st EXCEPT !.steps = Append(@, name)]

\* an error thrown out of run: citty's runMain prints it and exits with 1
uncaught(st, line) == processExit(consoleError(st, line), 1)

\* lines 63-79: the input is the url, else the icon, else the file
readInput(st, args, w) ==
    IF ~Not(args.url)
    THEN LET asks == called(st, "fetch")
         IN  IF ~w.urlOk
             THEN processExit(consoleError(asks, "Failed to fetch"), 1)
             ELSE [asks EXCEPT !.svg = Defined(w.body)]
    ELSE IF ~Not(args.icon)
    THEN LET asks == called(st, "fetchIconSvg")
         IN  IF ~w.iconFound
             THEN uncaught(asks, "Failed to fetch icon")
             ELSE [asks EXCEPT !.svg = Defined(w.body)]
    ELSE IF ~Not(args.file)
    THEN LET asks == called(st, "existsSync")
         IN  IF ~w.fileExists
             THEN processExit(consoleError(asks, "File not found"), 1)
             ELSE [called(asks, "readFileSync") EXCEPT !.svg = Defined(w.body)]
    ELSE st

\* lines 81-84
requireInput(st) ==
    IF st.done THEN st
    ELSE IF Not(st.svg)
    THEN processExit(consoleError(st, "No input provided. Use --help for usage."), 1)
    ELSE st

\* line 87: (args.index as IndexVariant) || 'popular'
variantOf(args) == IF Not(args.index) THEN "popular" ELSE args.index.text[1]

\* lines 87-91
requireVariant(st, args) ==
    IF st.done THEN st
    ELSE IF variantOf(args) \notin Variants
    THEN processExit(consoleError(st, "Invalid index variant"), 1)
    ELSE st

\* lines 97-115: the bundled index, or the cache through ensureIndex, then
\* loadIndex
loadTheIndex(st, args, w) ==
    IF st.done THEN st
    ELSE IF variantOf(args) = "popular" /\ w.bundled
    THEN called(called(st, "readFileSync bundled"), "loadIndex")
    ELSE LET checked == called(st, "isIndexDownloaded")
             told == IF w.downloaded THEN checked
                     ELSE consoleError(checked, "Downloading index...")
             ensuring == called(told, "ensureIndex")
         IN  IF ~w.downloaded /\ w.ensureFails
             THEN uncaught(ensuring, "Failed to download")
             ELSE called(ensuring, "loadIndex")

\* lines 117-138: findMatches and the printing of its result
matchAndPrint(st, args, w) ==
    IF st.done THEN st
    ELSE LET matching == called(st, "findMatches")
         IN  IF st.svg.text = <<"not an image">>
             THEN uncaught(matching, "Input buffer contains unsupported image format")
             ELSE IF args.json THEN consoleLog(matching, "json")
             ELSE IF w.found = 0
             THEN consoleLog(matching, "No matches found above threshold.")
             ELSE consoleLog(consoleLog(matching, "match"), "match")

\* run (lines 60-139), then the end of the process
run(args, w) ==
    LET input == requireInput(readInput(NotStarted, args, w))
        variant == requireVariant(input, args)
        indexed == loadTheIndex(variant, args, w)
        printed == matchAndPrint(indexed, args, w)
    IN  [printed EXCEPT !.done = TRUE]

OptionalTexts(texts) == {Undefined} \cup {Defined(t) : t \in texts}
ArgsSet ==
    [url : OptionalTexts({<<>>, <<"https://x/i.svg">>}),
     icon : OptionalTexts({<<"l:1">>}),
     file : OptionalTexts({<<>>, <<"i.svg">>}),
     index : OptionalTexts({<<"core">>, <<"best">>}),
     json : BOOLEAN]
Worlds ==
    [urlOk : BOOLEAN, iconFound : BOOLEAN, fileExists : BOOLEAN,
     body : {<<>>, <<"<svg/>">>, <<"not an image">>},
     bundled : BOOLEAN, downloaded : BOOLEAN, ensureFails : BOOLEAN,
     found : {0, 2}]

InitCli ==
    /\ argv \in ArgsSet
    /\ world \in Worlds
    /\ exited = NotStarted
    /\ IdleCodec /\ IdleHash /\ IdleMatch /\ IdleIndex /\ IdleFetch /\ IdleCache
    /\ IdleBuild /\ IdleQueries

\* whaticon [file] [--url u] [--icon i] ...
CallRun ==
    /\ exited = NotStarted
    /\ exited' = run(argv, world)
    /\ UNCHANGED <<argv, world>>
    /\ UNCHANGED <<varsCodec, varsHash, varsMatch, varsIndex, varsFetch, varsCache,
                   varsBuild, varsQueries>>

NextCli == CallRun

SpecCli == InitCli /\ [][NextCli]_vars

(***************************************************************************)
(* Claims about the codec (checked under SpecCodec).                       *)
(***************************************************************************)
\* bit k (0 = least significant) of a byte
BitOfByte(v, k) == (v \div (2 ^ k)) % 2

\* the reference: the number of bit positions at which a and b differ,
\* counted one bit at a time, from byte i on
NaiveBitCount(a, b, i) ==
    Cardinality({pos \in (i..Len(a)) \X (0..7) :
                    BitOfByte(a[pos[1]], pos[2]) # BitOfByte(b[pos[1]], pos[2])})

\* C6: for buffers of equal length hammingDistance returns the number of
\* differing bit positions; it is symmetric, 1024 for 128 bytes of 0x00
\* against 128 bytes of 0xFF, and 1 for a single differing bit.
C6_HammingIsBitCount ==
    (ret.op = "hammingDistance" /\ Len(h1) = Len(h2)) =>
        /\ ~ret.threw
        /\ ret.value = NaiveBitCount(h1, h2, 1)
        /\ hammingDistance(h2, h1) = ret
        /\ (h1 = Filled(HASH_BYTES, 0) /\ h2 = Filled(HASH_BYTES, 255))
               => ret.value = 1024
        /\ \A pos \in PokePositions, val \in PokeValues :
               (h1 = Filled(HASH_BYTES, 0) /\ h2 = Poked(HASH_BYTES, 0, pos, val))
                   => ret.value = 1

\* all 1024 bits differ, and the distance returned is 1024
C6_Witness ==
    /\ ret.op = "hammingDistance"
    /\ ~ret.threw
    /\ h1 = Filled(HASH_BYTES, 0)
    /\ h2 = Filled(HASH_BYTES, 255)
    /\ ret.value = 1024

\* C7: called with buffers of different lengths, hammingDistance and
\* hashSimilarity throw 'Hash length mismatch' and return no number.
C7_LengthMismatchThrows ==
    (ret.op \in {"hammingDistance", "hashSimilarity"} /\ Len(h1) # Len(h2)) =>
        /\ ret.threw
        /\ ret.msg = "Hash length mismatch"

\* hashSimilarity was called with 128 bytes against 64 bytes and threw
C7_Witness ==
    /\ ret.op = "hashSimilarity"
    /\ Len(h1) = HASH_BYTES
    /\ Len(h2) = 64
    /\ ret.threw

\* C8: for equal-length fingerprints (non-empty buffers) hashSimilarity is
\* 1 - distance/(8*len), lies in [0,1], is 1 exactly when the two are
\* identical and 0 exactly when every bit differs; hammingDistance(h,h) = 0.
C8_SimilarityRange ==
    /\ (ret.op = "hashSimilarity" /\ Len(h1) = Len(h2) /\ Len(h1) > 0) =>
        /\ ~ret.threw
        /\ ~ret.value.nan
        /\ ret.value.den = 8 * Len(h1)
        /\ ret.value.num = ret.value.den - NaiveBitCount(h1, h2, 1)
        /\ 0 <= ret.value.num
        /\ ret.value.num <= ret.value.den
        /\ (ret.value.num = ret.value.den) <=> (h1 = h2)
        /\ (ret.value.num = 0) <=>
               (\A i \in 1..Len(h1) : Xor8(h1[i], h2[i]) = 255)
    /\ (ret.op = "hammingDistance" /\ h1 = h2) => (~ret.threw /\ ret.value = 0)

\* two fingerprints that differ in every bit have similarity 0
C8_Witness ==
    /\ ret.op = "hashSimilarity"
    /\ ~ret.threw
    /\ Len(h1) = HASH_BYTES
    /\ ~ret.value.nan
    /\ ret.value.num = 0

(***************************************************************************)
(* Claims about computeHashFromPixels and computeDHash (under SpecHash).   *)
(***************************************************************************)
\* bit k of a fingerprint: byte k div 8, bit 7 - (k mod 8); -1 when the
\* buffer has no such byte
FingerprintBit(buf, k) ==
    IF k \div 8 < Len(buf) THEN BitOfByte(buf[(k \div 8) + 1], 7 - (k % 8)) ELSE -1

\* 1 when pixel (x, y) of the (n+1)-wide raster is darker than pixel (x+1, y)
ComparisonBit(data, n, x, y) ==
    IF data[y * (n + 1) + x + 1] < data[y * (n + 1) + x + 2] THEN 1 ELSE 0

\* the fingerprint holds every comparison of the raster and nothing else
HoldsAllComparisons(buf, data, n) ==
    /\ \A y \in 0..(n - 1), x \in 0..(n - 1) :
           FingerprintBit(buf, y * n + x) = ComparisonBit(data, n, x, y)
    /\ \A k \in 0..(8 * Len(buf) - 1) :
           k >= n * n => FingerprintBit(buf, k) = 0

\* C9: for a raster of (size+1) x size pixels, fingerprint bit k = y*size + x
\* (byte k div 8, bit 7 - k mod 8) is 1 exactly when pixel (x,y) < pixel
\* (x+1,y); all size*size comparisons are in the output, no other bit is set.
C9_BitsAreComparisons ==
    (hash.op = "computeDHash" /\ ~hash.threw) =>
        HoldsAllComparisons(hash.value, pixels, SizeOrDefault(size))

\* (the same statement for the sizes whose size*size bits fill whole bytes
\* of the 128-byte buffer: multiples of 4 up to 32)
C9_HoldsWhenBitsFillBuffer ==
    (/\ hash.op = "computeDHash"
     /\ ~hash.threw
     /\ SizeOrDefault(size) % 4 = 0
     /\ SizeOrDefault(size) <= DEFAULT_SIZE) =>
        HoldsAllComparisons(hash.value, pixels, SizeOrDefault(size))

\* C10: computeDHash returns a buffer of exactly 128 bytes for every size
\* argument, not only for the default 32.
C10_HashIs128Bytes ==
    (hash.op = "computeDHash" /\ ~hash.threw) =>
        /\ Len(hash.value) = 128
        /\ \A i \in 1..Len(hash.value) : hash.value[i] \in 0..255

\* computeDHash was called with a size other than 32 and returned 128 bytes,
\* some of them set
C10_Witness ==
    /\ hash.op = "computeDHash"
    /\ ~hash.threw
    /\ size.given
    /\ size.value = 40
    /\ Len(hash.value) = 128
    /\ hash.value # Filled(128, 0)

(***************************************************************************)
(* Claims about findMatches (checked under SpecMatch).                     *)
(***************************************************************************)
\* findMatches has returned a list
Answered == matches.op = "findMatches" /\ ~matches.threw

\* the options in force
ThresholdInForce == OrDefault(options.threshold, DefaultThreshold)
LimitInForce == OrDefault(options.limit, DefaultLimit)

\* |similarity[i] - similarity[j]| < 0.001 on two entries of the result
InTieBand(a, b) ==
    LET diff == a.similarity.num - b.similarity.num
    IN  (IF diff < 0 THEN 0 - diff ELSE diff) * 1000 < a.similarity.den

\* the prefix of an entry is in the list
InSets(list, entry) == SetHas(list, PrefixOf(entry.name))

\* C1: every entry findMatches returns has similarity >= options.threshold
\* (0.8 when the option is left out), for every index and options.
C1_SimilarityAtLeastThreshold ==
    Answered =>
        \A i \in 1..Len(matches.value) :
            FracGeq(matches.value[i].similarity, ThresholdInForce)

\* a threshold of 0.999 kept a record at distance 1 and dropped another
C1_Witness ==
    /\ Answered
    /\ options.threshold = Given(Frac(999, 1000))
    /\ Len(matches.value) < Len(index.names)
    /\ \E i \in 1..Len(matches.value) : matches.value[i].similarity.num = 1023

\* C2: findMatches never returns more than options.limit entries (10 when
\* the option is left out), for every value of limit and every index.  A
\* list has no fewer than 0 entries, so a negative limit allows none.
C2_AtMostLimit ==
    Answered => Len(matches.value) <= Max(LimitInForce, 0)

\* C2 for the limits that are not negative, where the bound holds
C2_AtMostLimitWhenNotNegative ==
    (Answered /\ LimitInForce >= 0) => Len(matches.value) <= LimitInForce

\* C3: the result is sorted by similarity descending except inside the
\* 0.001 tie band: for all positions i < j, similarity[i] >= similarity[j]
\* or the two are within 0.001, for every index order and prefer setting.
C3_SortedOutsideTieBand ==
    Answered =>
        \A i, j \in 1..Len(matches.value) :
            i < j =>
                \/ FracGeq(matches.value[i].similarity, matches.value[j].similarity)
                \/ InTieBand(matches.value[i], matches.value[j])

\* C4: with prefer set, of two entries of the result within 0.001 of each
\* other of which exactly one has its prefix in prefer, the preferred one
\* comes first.
C4_PreferredFirstAmongTied ==
    (Answered /\ options.prefer.given /\ Len(options.prefer.value) > 0) =>
        \A i, j \in 1..Len(matches.value) :
            ( /\ InTieBand(matches.value[i], matches.value[j])
              /\ InSets(options.prefer.value, matches.value[i])
              /\ ~InSets(options.prefer.value, matches.value[j]) ) => i < j

\* C5: with a non-empty prefixes list, every entry returned has a name whose
\* part before the first colon is in the list.
C5_OnlyListedPrefixes ==
    (Answered /\ options.prefixes.given /\ Len(options.prefixes.value) > 0) =>
        \A i \in 1..Len(matches.value) :
            InSets(options.prefixes.value, matches.value[i])

\* the filter let a record of a listed set through and kept out a record
\* of another set that is an exact match of the query
C5_Witness ==
    /\ Answered
    /\ options.prefixes = Given(<< <<"l">> >>)
    /\ options.threshold = OmittedFraction
    /\ Len(matches.value) > 0
    /\ \E i \in 1..Len(index.names) :
          /\ PrefixOf(index.names[i]) = <<"m">>
          /\ hammingDistanceAtOffset(computeDHashOf[query, options.size].value,
                                     index.hashes, (i - 1) * HASH_BYTES) = 0

\* the call of findMatches has ended, with a list or with an error
Called == matches.op = "findMatches"

\* computeDHash fails on the query at the size in force
FingerprintFails == computeDHashOf[query, options.size].threw

\* C16: when computing the fingerprint of the query fails, findMatches fails
\* with that error and returns no list, whatever the index and the options.
C16_FingerprintErrorAborts ==
    (Called /\ FingerprintFails) =>
        /\ matches.threw
        /\ matches.msg = computeDHashOf[query, options.size].msg

C16_Witness ==
    /\ Called
    /\ FingerprintFails
    /\ matches.threw
    /\ Len(index.names) = MaxRecords
    /\ options.threshold = Given(Frac(0, 1))

\* the positions 1..n of a list that satisfy Keep, in ascending order
RECURSIVE PositionsInOrder(_, _, _)
PositionsInOrder(n, Keep(_), i) ==
    IF i > n THEN <<>>
    ELSE (IF Keep(i) THEN <<i>> ELSE <<>>) \o PositionsInOrder(n, Keep, i + 1)

\* record i (from 1) of the index passes the prefix filter
PassesPrefixFilter(i) ==
    \/ ~options.prefixes.given
    \/ options.prefixes.value = <<>>
    \/ SetHas(options.prefixes.value, PrefixOf(index.names[i]))

\* record k (1, 2, ...) of a hash buffer
RecordOf(hashes, k) == SubSeq(hashes, (k - 1) * HASH_BYTES + 1, k * HASH_BYTES)

\* the distance between the fingerprint of the query and bytes
\* [(i-1)*128, (i-1)*128 + 128) of the hash buffer, by hammingDistance
SliceDistance(i) ==
    hammingDistance(computeDHashOf[query, options.size].value,
                    RecordOf(index.hashes, i)).value

\* d <= floor((1 - threshold) * 1024)
ClearsThreshold(d) ==
    d <= ((ThresholdInForce.den - ThresholdInForce.num) * HASH_BYTES * 8)
             \div ThresholdInForce.den

\* C20: when the loop of findMatches has ended, its list holds exactly the
\* records that pass the prefix filter and whose distance d to the query is
\* at most floor((1 - threshold) * 1024), in index order, each as
\* (names[i], 1 - d/1024), d being hammingDistance on the record's slice.
C20_CandidatesAreTheRecordsInRange ==
    Answered =>
        LET d == [i \in 1..Len(index.names) |-> SliceDistance(i)]
            kept == PositionsInOrder(Len(index.names),
                        LAMBDA i : PassesPrefixFilter(i) /\ ClearsThreshold(d[i]), 1)
        IN  /\ Len(candidates) = Len(kept)
            /\ \A k \in 1..Len(kept) :
                  /\ candidates[k].name = index.names[kept[k]]
                  /\ candidates[k].similarity =
                         Frac(HASH_BYTES * 8 - d[kept[k]], HASH_BYTES * 8)

C20_Witness ==
    /\ Answered
    /\ Len(index.names) = MaxRecords
    /\ Len(candidates) = 2
    /\ candidates[1].name = index.names[2]
    /\ candidates[2].name = index.names[MaxRecords]
    /\ candidates[1].similarity.num < HASH_BYTES * 8

(***************************************************************************)
(* Claims about loadIndex and buildIndex (checked under SpecIndex).        *)
(***************************************************************************)
\* loadIndex has returned an index
Loaded == loaded.op = "loadIndex" /\ ~loaded.threw

\* buildIndex has returned
Built == built.op = "buildIndex" /\ ~built.threw

\* the files handed to loadIndex are the two outputs of buildIndex, gzipped
FilesAreBuilt ==
    /\ Built
    /\ namesGz = gzipSync(Utf8Encode(built.value.names))
    /\ hashesGz = gzipSync(built.value.hashes)

\* the batch (0, 1, ...) of the icon at position i (1, 2, ...)
BatchOf(i) == (i - 1) \div batchSize

\* the rasterizer draws the icon at position i when it is handed over alone
Drawable(i) == icons[i].svg.kind # "invalid"

\* the positions of the icons that are hashed, in input order: all icons of
\* a batch whose sprite sheet is processed, the drawable ones of the others
HashedPositions ==
    LET IsHashed(i) == BatchOf(i) \notin spriteFails \/ Drawable(i)
    IN  SelectSeq([i \in 1..Len(icons) |-> i], IsHashed)

\* the fingerprint of the icon at position i: the one of its picture at the
\* size of the build; blank when it is not drawable (a white cell)
FingerprintOfIcon(i) ==
    IF Drawable(i) THEN computeDHash(icons[i].svg, Given(SizeOrDefault(buildSize))).value
    ELSE Filled(HASH_BYTES, 0)

\* C11: loadIndex fails at load time whenever the decompressed hash buffer
\* is not exactly 128 bytes per non-blank name line; it never returns an
\* index with len(hashes) # len(names) * 128.
C11_LoadRejectsMismatch ==
    Loaded => Len(loaded.value.hashes) = Len(loaded.value.names) * HASH_BYTES

\* C12: loading the two outputs of buildIndex gives the names of the icons
\* that were hashed, in input order, and a hash buffer of 128 bytes per
\* name whose record i is the fingerprint stored for the i-th name, for
\* every pattern of batch and per-icon failures.
C12_BuildLoadRoundTrip ==
    (loaded.op = "loadIndex" /\ FilesAreBuilt) =>
        LET hashed == HashedPositions
        IN  /\ ~loaded.threw
            /\ loaded.value.names = [k \in 1..Len(hashed) |-> icons[hashed[k]].name]
            /\ Len(loaded.value.hashes) = HASH_BYTES * Len(hashed)
            /\ loaded.value.hashes = built.value.hashes
            /\ \A k \in 1..Len(hashed) :
                   RecordOf(loaded.value.hashes, k) = FingerprintOfIcon(hashed[k])

\* an index was built with the sprite sheet rejected and the first icon
\* dropped, written and loaded
C12_Witness ==
    /\ Loaded
    /\ FilesAreBuilt
    /\ Len(icons) = MaxIcons
    /\ spriteFails = {0}
    /\ ~Drawable(1)
    /\ Len(loaded.value.names) = MaxIcons - 1
    /\ loaded.value.names[1] = IconName(2)
    /\ RecordOf(loaded.value.hashes, 1) # Filled(HASH_BYTES, 0)

\* C13: when a batch's sprite sheet fails, every icon of the batch is
\* hashed alone; an icon that fails alone too is left out of names and
\* hashes, all other icons of this and every other batch are kept, nothing
\* of the failed sprite attempt stays, and buildIndex still returns.
C13_FallbackKeepsTheRest ==
    built.op = "buildIndex" =>
        LET hashed == HashedPositions
        IN  /\ ~built.threw
            /\ built.value.names =
                   joinLines([k \in 1..Len(hashed) |-> icons[hashed[k]].name],
                             1, Len(hashed))
            /\ Len(built.value.hashes) = HASH_BYTES * Len(hashed)
            /\ \A k \in 1..Len(hashed) :
                   BatchOf(hashed[k]) \in spriteFails =>
                       RecordOf(built.value.hashes, k)
                           = computeDHash(icons[hashed[k]].svg,
                                          Given(SizeOrDefault(buildSize))).value

\* the sprite sheet of the batch was rejected; the icon in the middle
\* failed alone too and is left out, the icons around it are kept
C13_Witness ==
    /\ Built
    /\ Len(icons) = MaxIcons
    /\ spriteFails = {0}
    /\ Drawable(1)
    /\ ~Drawable(2)
    /\ Drawable(MaxIcons)
    /\ Len(built.value.hashes) = HASH_BYTES * (MaxIcons - 1)
    /\ built.value.names = IconName(1) \o <<NewLine>> \o IconName(MaxIcons)

\* C14: onProgress is called exactly once after each batch, succeeded or
\* fallen back, with (min(batchStart + 1000, total), total): ceil(total/1000)
\* calls, the count strictly increasing, the last one reporting total.
C14_ProgressAfterEachBatch ==
    built.op = "buildIndex" =>
        /\ Len(progress) = CeilDiv(Len(icons), batchSize)
        /\ \A k \in 1..Len(progress) :
               progress[k] = <<Min((k - 1) * batchSize + batchSize, Len(icons)),
                               Len(icons)>>
        /\ \A k \in 1..(Len(progress) - 1) : progress[k][1] < progress[k + 1][1]
        /\ Len(progress) > 0 => progress[Len(progress)][1] = Len(icons)

\* a batch that fell back and dropped an icon was reported once, with the
\* number of icons handed in
C14_Witness ==
    /\ Built
    /\ Len(icons) = MaxIcons
    /\ spriteFails = {0}
    /\ ~Drawable(1)
    /\ progress = << <<MaxIcons, MaxIcons>> >>

(***************************************************************************)
(* Claims about fetchIconSvg (checked under SpecFetch).                    *)
(***************************************************************************)
Fetched == fetched.op = "fetchIconSvg"

\* alphanumeric or hyphen
IsNameChar(c) == c \in {"a", "7", "-"}

\* prefix:identifier: one colon, one or more name characters on both sides
WellFormed(name) ==
    \E k \in 1..Len(name) :
        /\ name[k] = Colon
        /\ k > 1
        /\ k < Len(name)
        /\ \A j \in (1..Len(name)) \ {k} : IsNameChar(name[j])

\* C15: every name that is not of the form prefix:identifier fails with
\* 'Invalid icon name' before any request is made, and an unsuccessful
\* answer of the host to a request fails with 'Failed to fetch'.
C15_InvalidNameBeforeAnyRequest ==
    Fetched =>
        /\ ~WellFormed(fetchName) =>
              /\ fetched.threw
              /\ fetched.msg = "Invalid icon name"
              /\ requests = <<>>
        /\ (requests # <<>> /\ ~upstream.failed /\ ~upstream.ok) =>
              /\ fetched.threw
              /\ fetched.msg = "Failed to fetch icon"

(***************************************************************************)
(* Claims about the cache of download.ts (checked under SpecCache).        *)
(***************************************************************************)
\* both index files exist in the directory of the variant
BothExist(disk, variant) ==
    /\ disk[<<variant, "names.txt.gz">>].exists
    /\ disk[<<variant, "hashes.bin.gz">>].exists

\* the contents of the two index files of the variant
TwoFiles(disk, variant) ==
    [null |-> FALSE,
     namesGz |-> disk[<<variant, "names.txt.gz">>].data,
     hashesGz |-> disk[<<variant, "hashes.bin.gz">>].data]

\* C17: in every state of the cache directory, isIndexDownloaded(variant)
\* is true exactly when names.txt.gz and hashes.bin.gz both exist in the
\* directory of that variant, and loadCachedIndex(variant) returns null when
\* they do not both exist and the contents of the two files when they do;
\* the files of the other variants have no part in either answer.
C17_AnswersFollowTheTwoFiles ==
    [][(calls' = calls + 1 /\ ensure' = ensure) =>
          /\ answer'.op = "isIndexDownloaded" =>
                /\ answer'.value <=> BothExist(cache, asked')
                /\ cache' = cache
          /\ answer'.op = "loadCachedIndex" =>
                /\ answer'.value.null <=> ~BothExist(cache, asked')
                /\ ~answer'.value.null => answer'.value = TwoFiles(cache, asked')
                /\ cache' = cache]_vars

C17_Witness ==
    /\ answer.op = "loadCachedIndex"
    /\ asked = "full"
    /\ ~answer.value.null
    /\ answer.value.hashesGz = ByHand
    /\ answer.value.namesGz = Asset("full", "names.txt.gz")
    /\ cache[<<"core", "names.txt.gz">>].exists
    /\ ~cache[<<"core", "hashes.bin.gz">>].exists

\* this step is a call ensureIndex(variant)
EnsureIndexCalled(variant) ==
    /\ calls' = calls + 1
    /\ \/ ensure.pc = "idle" /\ ensure'.pc = "tag"
       \/ answer'.op = "ensureIndex"
    /\ ensure'.variant = variant

\* this step ends an ensureIndex call that went through its download
EnsureIndexEndedAfterDownload == ensure.pc # "idle" /\ ensure'.pc = "idle"

\* the errors downloadIndex ends with
DownloadIndexErrors ==
    {"Failed to fetch releases", "No index release found", "Failed to download",
     "aborted", "JSON Parse error"}

\* what the claim says of a call, but for the error it ends with
EnsureIndexSteps(Errors) ==
    /\ \A variant \in Variants :
          EnsureIndexCalled(variant) =>
              /\ variant \in ensured => ensure'.downloads = 0
              /\ IF BothExist(cache, variant)
                 THEN /\ ensure'.pc = "idle"
                      /\ ensure'.downloads = 0
                      /\ answer' = Returned("ensureIndex", TwoFiles(cache, variant))
                      /\ asked' = variant
                      /\ cache' = cache
                 ELSE /\ ensure'.pc = "tag"
                      /\ ensure'.downloads = 1
    /\ EnsureIndexEndedAfterDownload =>
          /\ answer'.op = "ensureIndex"
          /\ asked' = ensure.variant
          /\ ensure'.downloads = 1
          /\ IF answer'.threw
             THEN /\ answer'.msg \in Errors
                  /\ answer'.msg = "Failed to load index after download" =>
                         ~BothExist(cache', ensure.variant)
             ELSE /\ BothExist(cache', ensure.variant)
                  /\ answer'.value = TwoFiles(cache', ensure.variant)

\* C18 as stated: ensureIndex(variant) returns the cached files without a
\* download when both exist; otherwise it runs downloadIndex once and returns
\* the cached files or fails with 'Failed to load index after download'; after
\* it has returned, no later ensureIndex(variant) downloads until the cache is
\* cleared.
C18_FailsOnlyWithFailedToLoad ==
    [][EnsureIndexSteps({"Failed to load index after download"})]_vars

\* C18, amended: as stated, but a call that runs downloadIndex also fails, with
\* the error of downloadIndex, when the download fails.
C18_DownloadsOnlyOnFirstUse ==
    [][EnsureIndexSteps(DownloadIndexErrors
                        \cup {"Failed to load index after download"})]_vars

\* a second ensureIndex("full") returned the files the first one downloaded
C18_Witness ==
    /\ answer.op = "ensureIndex"
    /\ ~answer.threw
    /\ asked = "full"
    /\ ensure = [pc |-> "idle", variant |-> "full", downloads |-> 0]
    /\ answer.value = CachedIndex(Asset("full", "names.txt.gz"),
                                  Asset("full", "hashes.bin.gz"))
    /\ "full" \in ensured

(***************************************************************************)
(* Claims about the command line (checked under SpecCli).                  *)
(***************************************************************************)
Exited == exited.done

\* neither --url nor --icon is given: the input is the file, if any
InputIsTheFile == Not(argv.url) /\ Not(argv.icon)

\* the calls that load or download an index, or compute a match
IndexOrMatchSteps ==
    {"readFileSync bundled", "isIndexDownloaded", "ensureIndex", "loadIndex",
     "findMatches"}

NoIndexNoMatch == \A k \in 1..Len(exited.steps) : exited.steps[k] \notin IndexOrMatchSteps

\* the command line printed this one line and exited with code 1, having
\* loaded or downloaded no index and computed no match
ExitedEarlyWith(line) ==
    /\ exited.stderr = <<line>>
    /\ exited.code = 1
    /\ NoIndexNoMatch

\* C19 as stated: given no --url, no --icon and no file, the command line
\* prints 'No input provided' and exits with code 1, and given a file path
\* that does not exist it prints 'File not found' and exits with code 1, in
\* both cases before any index is loaded or downloaded or any match computed.
C19_MissingFileAlwaysExits ==
    Exited =>
        /\ (InputIsTheFile /\ Not(argv.file)) =>
              ExitedEarlyWith("No input provided. Use --help for usage.")
        /\ (~Not(argv.file) /\ ~world.fileExists) =>
              ExitedEarlyWith("File not found")

\* C19, amended: as stated, the second case being a file path that does not
\* exist given with neither --url nor --icon (the file is then the input).
C19_NoInputExitsBeforeTheIndex ==
    (Exited /\ InputIsTheFile) =>
        /\ Not(argv.file) =>
              ExitedEarlyWith("No input provided. Use --help for usage.")
        /\ (~Not(argv.file) /\ ~world.fileExists) =>
              ExitedEarlyWith("File not found")

C19_Witness ==
    /\ Exited
    /\ InputIsTheFile
    /\ argv.file = Defined(<<"i.svg">>)
    /\ ~world.fileExists
    /\ world.bundled
    /\ exited.stderr = <<"File not found">>
    /\ exited.steps = <<"existsSync">>

(***************************************************************************)
(* Claims about the order of the result of findMatches (checked under      *)
(* SpecMatch).                                                             *)
(***************************************************************************)
\* the position (1, 2, ...) in the index of an entry of the result; the
\* names of an index are all different
PositionInIndex(entry) == CHOOSE k \in 1..Len(index.names) : index.names[k] = entry.name

\* prefer?.length is truthy
PreferConfigured == options.prefer.given /\ Len(options.prefer.value) > 0

\* both prefixes in prefer, both not in prefer, or no prefer configured
EquallyPreferred(a, b) ==
    \/ ~PreferConfigured
    \/ InSets(options.prefer.value, a) = InSets(options.prefer.value, b)

\* C23: among entries of the result that are tied (similarities within
\* 0.001 of each other) and equally preferred, the relative order is their
\* order in the index.
C23_TiedKeepIndexOrder ==
    Answered =>
        \A i, j \in 1..Len(matches.value) :
            ( /\ i < j
              /\ InTieBand(matches.value[i], matches.value[j])
              /\ EquallyPreferred(matches.value[i], matches.value[j]) )
            => PositionInIndex(matches.value[i]) < PositionInIndex(matches.value[j])

\* the index holds the records at distance 2, 1 and 0 in this order, no
\* prefer, the default threshold and limit, sorted by the merge sort of
\* JavaScriptCore: the record at distance 0 comes out before the record at
\* distance 1, which is tied with it and stands before it in the index
C23_FailingInput ==
    /\ Answered
    /\ engine = "jsc"
    /\ options = DefaultOptions
    /\ Len(index.names) = 3
    /\ \A k \in 1..3 : SliceDistance(k) = 3 - k
    /\ Len(matches.value) = 3
    /\ PositionInIndex(matches.value[1]) = 3
    /\ PositionInIndex(matches.value[3]) = 2

\* a record passes the prefix filter and its fingerprint is the one of the
\* query
ExactMatchInIndex ==
    \E k \in 1..Len(index.names) :
        /\ PassesPrefixFilter(k)
        /\ PrefixOf(index.names[k]) # <<>> \/ SetOrNull(options.prefixes) = Omitted
        /\ RecordOf(index.hashes, k) = computeDHashOf[query, options.size].value

\* C27: with no prefer option and limit >= 1, if the index holds a record
\* that passes the prefix filter and whose fingerprint equals the one of
\* the query, the first entry returned has similarity 1.0, wherever that
\* record is in the index and whatever records surround it.
C27_ExactMatchFirst ==
    (Answered /\ ~options.prefer.given /\ LimitInForce >= 1 /\ ExactMatchInIndex) =>
        /\ Len(matches.value) >= 1
        /\ matches.value[1].similarity = Frac(HASH_BYTES * 8, HASH_BYTES * 8)

\* the index holds the records at distance 2, 1 and 0 in this order; the
\* sort of V8 takes the three for one ascending run and leaves them as they
\* are, so the record at distance 2 is first and the exact match last
C27_FailingInput ==
    /\ Answered
    /\ engine = "v8"
    /\ options = DefaultOptions
    /\ Len(index.names) = 3
    /\ \A k \in 1..3 : SliceDistance(k) = 3 - k
    /\ Len(matches.value) = 3
    /\ matches.value[1].similarity = Frac(HASH_BYTES * 8 - 2, HASH_BYTES * 8)
    /\ matches.value[3].similarity = Frac(HASH_BYTES * 8, HASH_BYTES * 8)

(***************************************************************************)
(* Claim about a download that fails (checked under SpecCache).            *)
(***************************************************************************)
\* a step in which a downloadFile of downloadIndex, or the reading of the
\* metadata after the third one, fails and ends the ensureIndex call
DownloadIndexFails ==
    /\ ensure.pc \in {"names", "hashes", "metadata"}
    /\ ensure'.pc = "idle"
    /\ answer'.threw
    /\ answer'.msg # "Failed to load index after download"

\* C28: a download is all-or-nothing for the cache: if downloadIndex(variant)
\* fails at any of its three steps or a file transfer is interrupted,
\* isIndexDownloaded(variant) is false afterwards, so that a later
\* ensureIndex(variant) downloads again.
C28_FailedDownloadLeavesNoIndex ==
    [][DownloadIndexFails => ~isIndexDownloaded(cache', ensure.variant)]_vars

\* ensureIndex('core') on an empty cache: names and hashes were downloaded,
\* the download of the metadata was answered 404; both index files are in
\* the cache and isIndexDownloaded('core') is true
C28_FailingInput ==
    /\ answer = Thrown("ensureIndex", "Failed to download")
    /\ asked = "core"
    /\ writes = 0
    /\ calls = 1
    /\ cache[getIndexPaths("core").names] = FileOf(Asset("core", "names.txt.gz"))
    /\ cache[getIndexPaths("core").hashes] = FileOf(Asset("core", "hashes.bin.gz"))
    /\ ~existsSync(cache, getIndexPaths("core").metadata)
    /\ isIndexDownloaded(cache, "core")

\* the same with the transfer of the hashes interrupted: the file that
\* createWriteStream made is there, cut short, and a second ensureIndex
\* returned it without downloading
C28_CutShortIndexReturned ==
    /\ answer.op = "ensureIndex"
    /\ ~answer.threw
    /\ asked = "core"
    /\ ensure.downloads = 0
    /\ writes = 0
    /\ answer.value.hashesGz = CutShort
    /\ answer.value.namesGz = Asset("core", "names.txt.gz")

(***************************************************************************)
(* buildIndex step by step (lines 329-394).  The function is async: it     *)
(* awaits the raster of each batch's sprite sheet (line 353) and, in the   *)
(* fallback, computeDHash of each icon (line 378).  SpecBuild follows one  *)
(* call from await to await and keeps a log of what it did: the sheet of a *)
(* batch handed to the rasterizer, the raster given or the sheet rejected, *)
(* the extraction, every icon hashed alone, every entry pushed.  Icons     *)
(* come in every shape here: square, wide, tall, and not drawable.         *)
(***************************************************************************)
\* an entry of the log: what was done, for which batch (0, 1, ...), on which
\* icon (1, 2, ... in the list handed in; 0 when it is about the batch)
Event(what, batch, icon) == [what |-> what, batch |-> batch, icon |-> icon]

\* names, hashBuffers and the onProgress calls so far
Gathered == [names |-> building.names, hashBuffers |-> building.hashBuffers,
             calls |-> progress]

\* the batch that starts at icon i (0-based): icons.slice(i, i + batchSize)
sliceBatch(list, i) == SubSeq(list, i + 1, Min(i + batchSize, Len(list)))

\* the pushes of lines 370-373 and 379-380 as log entries, for the icons at
\* the positions kept of the batch that starts at i
pushEvents(i, kept) ==
    [j \in 1..Len(kept) |-> Event("push", i \div batchSize, i + kept[j])]

\* the computeDHash calls of line 378 as log entries
hashEvents(i, count) ==
    [j \in 1..count |-> Event("hash alone", i \div batchSize, i + j)]

\* the end of a loop iteration (lines 387, 341, 390-393): the batch is
\* reported, and either the sheet of the next batch is composed and handed
\* to the rasterizer or buildIndex returns
EndOfBatch(acc, events) ==
    /\ progress' = acc.calls
    /\ IF building.i + batchSize < Len(icons)
       THEN /\ building' =
                  [pc |-> "raster", i |-> building.i + batchSize,
                   names |-> acc.names, hashBuffers |-> acc.hashBuffers,
                   log |-> building.log \o events
                           \o <<Event("rasterize",
                                      (building.i + batchSize) \div batchSize, 0)>>]
            /\ built' = built
       ELSE /\ building' =
                  [pc |-> "done", i |-> building.i + batchSize,
                   names |-> acc.names, hashBuffers |-> acc.hashBuffers,
                   log |-> building.log \o events]
            /\ built' = indexOf(acc).result

BuildShapes ==
    {Picture("step", 1), Shaped("ramp", 0, DefaultViewBox, 2 * DefaultViewBox),
     Shaped("diag", 0, 2 * DefaultViewBox, DefaultViewBox), InvalidImage}

\* the short lists, of icons of every shape
ShapedLists ==
    {[i \in 1..Len(images) |-> Icon(IconName(i), images[i])] :
        images \in UNION {[1..n -> BuildShapes] : n \in 0..MaxIcons}}

\* long lists with a wide icon at the end of the first sprite row and a
\* tall one at the start of the second, and the icons at bad not drawable
ShapedLongList(total, bad) ==
    [i \in 1..total |->
        Icon(IconName(i),
             IF i \in bad THEN InvalidImage
             ELSE IF i = SPRITE_COLS
                  THEN Shaped("diag", 0, 2 * DefaultViewBox, DefaultViewBox)
             ELSE IF i = SPRITE_COLS + 1
                  THEN Shaped("ramp", 0, DefaultViewBox, 2 * DefaultViewBox)
             ELSE Picture("step", 1))]

\* lists of two sprite rows, of a full batch, and of full batches and one
\* icon more; and a list of that length with hardly an icon drawable
ShapedLongLists ==
    {ShapedLongList(total, bad) :
        total \in {SPRITE_COLS + 1, batchSize, MaxBatches * batchSize + 1},
        bad \in {{}, {batchSize, batchSize + 1}}}
    \cup {ShapedLongList(MaxBatches * batchSize + 1, 3..(MaxBatches * batchSize))}

InitBuild ==
    /\ \/ /\ icons \in ShapedLists
          /\ buildSize \in {Given(LongListSize), Given(LongListSize + 1)}
          /\ spriteFails \in SUBSET {0}
       \/ /\ icons \in {list \in ShapedLists : Len(list) = 1}
          /\ buildSize = Omitted
          /\ spriteFails \in SUBSET {0}
       \/ /\ icons \in ShapedLongLists
          /\ buildSize = Given(LongListSize)
          /\ spriteFails \in SUBSET (0..MaxBatches)
    /\ built = NoCall
    /\ progress = <<>>
    /\ namesGz = NoFile
    /\ hashesGz = NoFile
    /\ loaded = NoCall
    /\ building = NotBuilding
    /\ IdleCodec /\ IdleHash /\ IdleMatch
    /\ IdleFetch /\ IdleCache /\ IdleCli /\ IdleQueries

\* buildIndex(icons, size, onProgress) up to its first await (lines 334-353),
\* or to its end when there is no icon
StartBuildIndex ==
    /\ building.pc = "idle"
    /\ built = NoCall
    /\ IF Len(icons) = 0
       THEN /\ building' = [building EXCEPT !.pc = "done"]
            /\ built' = indexOf(Gathered).result
       ELSE /\ building' = [building EXCEPT !.pc = "raster",
                                            !.log = <<Event("rasterize", 0, 0)>>]
            /\ built' = built
    /\ UNCHANGED <<icons, buildSize, spriteFails, progress, namesGz, hashesGz, loaded>>
    /\ UNCHANGED <<varsCodec, varsHash, varsMatch, varsFetch, varsCache, varsCli,
                   varsQueries>>

\* the await of line 353 ends with the raster: the hashes are extracted and
\* the entries of the batch pushed (lines 361-373), the batch is reported
SpriteRasterized ==
    /\ building.pc = "raster"
    /\ (building.i \div batchSize) \notin spriteFails
    /\ LET batch == sliceBatch(icons, building.i)
       IN  EndOfBatch(batchDone(Gathered,
                                batchBySprite(batch, SizeOrDefault(buildSize)),
                                progressCall(building.i, Len(icons))),
                      <<Event("rasterized", building.i \div batchSize, 0),
                        Event("extract", building.i \div batchSize, 0)>>
                      \o pushEvents(building.i, [j \in 1..Len(batch) |-> j]))
    /\ UNCHANGED <<icons, buildSize, spriteFails, namesGz, hashesGz, loaded>>
    /\ UNCHANGED <<varsCodec, varsHash, varsMatch, varsFetch, varsCache, varsCli,
                   varsQueries>>

\* the sheet is rejected (createSpriteSheet, sharp or the extraction throws):
\* the catch block of line 374 is entered
SpriteRejected ==
    /\ building.pc = "raster"
    /\ (building.i \div batchSize) \in spriteFails
    /\ building' = [building EXCEPT
                       !.pc = "icons",
                       !.log = Append(@, Event("rejected", building.i \div batchSize, 0))]
    /\ UNCHANGED <<icons, buildSize, spriteFails, built, progress,
                   namesGz, hashesGz, loaded>>
    /\ UNCHANGED <<varsCodec, varsHash, varsMatch, varsFetch, varsCache, varsCli,
                   varsQueries>>

\* the catch block (lines 376-384): every icon of the batch hashed alone, one
\* await after the other, the ones hashed pushed; the batch is reported
FallbackHashed ==
    /\ building.pc = "icons"
    /\ LET batch == sliceBatch(icons, building.i)
           results == hashEach(batch, SizeOrDefault(buildSize))
       IN  EndOfBatch(batchDone(Gathered, keepHashed(batch, results),
                                progressCall(building.i, Len(icons))),
                      hashEvents(building.i, Len(batch))
                      \o pushEvents(building.i, positionsHashed(results, Len(batch))))
    /\ UNCHANGED <<icons, buildSize, spriteFails, namesGz, hashesGz, loaded>>
    /\ UNCHANGED <<varsCodec, varsHash, varsMatch, varsFetch, varsCache, varsCli,
                   varsQueries>>

NextBuild == StartBuildIndex \/ SpriteRasterized \/ SpriteRejected \/ FallbackHashed

SpecBuild == InitBuild /\ [][NextBuild]_vars

(***************************************************************************)
(* Claims about the sprite sheets of buildIndex (checked under SpecBuild). *)
(***************************************************************************)
\* the entries pushed so far, in the order they were pushed: entry k of the
\* log's pushes is for hashBuffers[k]
Pushes == SelectSeq(building.log, LAMBDA ev : ev.what = "push")

\* the batch of an entry went through its sprite sheet
BySprite(ev) == ev.batch \notin spriteFails

\* the batch an entry belongs to, and the cell (0, 1, ...) of its icon
BatchOfEntry(ev) == sliceBatch(icons, ev.batch * batchSize)
CellOfEntry(ev) == ev.icon - ev.batch * batchSize - 1

\* the sub-rectangle of w x h pixels with its corner at (x0, y0) of a raster
\* whose rows are spriteWidth long: its positions, and its pixels as a buffer
RectanglePositions(spriteWidth, x0, y0, w, h) ==
    {(y0 + y) * spriteWidth + x0 + x : x \in 0..(w - 1), y \in 0..(h - 1)}
SubRectangle(data, spriteWidth, x0, y0, w, h) ==
    [k \in 1..(w * h) |->
        SpritePixel(data, (y0 + ((k - 1) \div w)) * spriteWidth + x0 + ((k - 1) % w))]

\* C21: for every cell i of a rasterized sprite sheet, extractHashesFromSprite
\* returns the 128 bytes that computeHashFromPixels returns for the cell's
\* (size+1) x size sub-rectangle, and every pixel it reads lies inside that
\* sub-rectangle and inside the raster buffer.
C21_CellHashIsHashOfSubRectangle ==
    LET n == SizeOrDefault(buildSize)
        pushes == Pushes
    IN  \A k \in 1..Len(pushes) :
            BySprite(pushes[k]) =>
                LET batch == BatchOfEntry(pushes[k])
                    data == spriteData(batch, n)
                    x0 == (CellOfEntry(pushes[k]) % SPRITE_COLS) * (n + 1)
                    y0 == (CellOfEntry(pushes[k]) \div SPRITE_COLS) * n
                    reads == cellReads(spriteWidthOf(n), n + 1, n,
                                 cellStartX(CellOfEntry(pushes[k]), SPRITE_COLS, n + 1),
                                 cellStartY(CellOfEntry(pushes[k]), SPRITE_COLS, n))
                IN  /\ building.hashBuffers[k] =
                           computeHashFromPixels(
                               SubRectangle(data, spriteWidthOf(n), x0, y0, n + 1, n),
                               n, n + 1)
                    /\ reads \subseteq RectanglePositions(spriteWidthOf(n), x0, y0, n + 1, n)
                    /\ reads \subseteq 0..(RasterLength(data) - 1)

\* a list of two sprite rows went through its sheet: the wide icon at the
\* end of the first row and the tall one at the start of the second have
\* fingerprints of their own
C21_Witness ==
    /\ building.pc = "done"
    /\ Len(icons) = SPRITE_COLS + 1
    /\ spriteFails = {}
    /\ Len(building.hashBuffers) = SPRITE_COLS + 1
    /\ building.hashBuffers[SPRITE_COLS] # building.hashBuffers[SPRITE_COLS + 1]
    /\ building.hashBuffers[SPRITE_COLS] # building.hashBuffers[1]
    /\ building.hashBuffers[SPRITE_COLS + 1] # building.hashBuffers[1]

\* a sprite sheet was composed for the batch that starts at icon i (0-based)
SheetComposed(i) ==
    \E k \in 1..Len(building.log) :
        building.log[k] = Event("rasterize", i \div batchSize, 0)

\* C22: compose and extract geometry agree for every batch length 1..1000,
\* every cell and the size of the build: the corner where createSpriteSheet
\* draws cell i, ((i mod 50)*(size+1), floor(i/50)*size), is the corner
\* extractHashesFromSprite reads from; the cell is size+1 wide and size high
\* in both; and the document's width and height, (50*(size+1),
\* ceil(n/50)*size), are the raster dimensions buildIndex asks for.
C22_ComposeAndExtractAgree ==
    SheetComposed(0) =>
        LET n == SizeOrDefault(buildSize)
            iconWidth == n + 1
            iconHeight == n
        IN  /\ \A i \in 0..(batchSize - 1) :
                  /\ sheetX(i, SPRITE_COLS, iconWidth) = (i % SPRITE_COLS) * (n + 1)
                  /\ sheetY(i, SPRITE_COLS, iconWidth) = (i \div SPRITE_COLS) * n
                  /\ cellStartX(i, SPRITE_COLS, iconWidth)
                         = sheetX(i, SPRITE_COLS, iconWidth)
                  /\ cellStartY(i, SPRITE_COLS, iconHeight)
                         = sheetY(i, SPRITE_COLS, iconWidth)
            /\ iconWidth - 1 = iconHeight
            /\ \A count \in 1..batchSize :
                  /\ sheetWidth(SPRITE_COLS, iconWidth) = SPRITE_COLS * (n + 1)
                  /\ sheetHeight(count, SPRITE_COLS, iconWidth)
                         = CeilDiv(count, SPRITE_COLS) * n
                  /\ spriteWidthOf(n) = sheetWidth(SPRITE_COLS, iconWidth)
                  /\ spriteHeightOf(count, n)
                         = sheetHeight(count, SPRITE_COLS, iconWidth)

\* a sheet of two rows was composed, rasterized at the dimensions asked for
\* and read back: the build returned an entry for every cell
C22_Witness ==
    /\ built.op = "buildIndex"
    /\ ~built.threw
    /\ SheetComposed(0)
    /\ BySprite(Event("push", 0, 1))
    /\ Len(icons) = SPRITE_COLS + 1
    /\ spriteHeightOf(Len(icons), SizeOrDefault(buildSize))
           = 2 * SizeOrDefault(buildSize)
    /\ Len(built.value.hashes) = Len(icons) * Len(building.hashBuffers[1])

\* C26: for every icon hashed through the sprite-sheet path of buildIndex,
\* the fingerprint stored in the index is bit-identical to the fingerprint
\* computeDHash produces for that icon alone.
C26_SpriteHashIsHashAlone ==
    LET n == SizeOrDefault(buildSize)
        pushes == Pushes
    IN  \A k \in 1..Len(pushes) :
            (BySprite(pushes[k]) /\ icons[pushes[k].icon].svg.kind # "invalid") =>
                building.hashBuffers[k]
                    = computeDHash(icons[pushes[k].icon].svg, Given(n)).value

\* buildIndex([{ name: 'l:1', svg: wide icon, viewBox 0 0 48 24 }]) at the
\* default size: the sheet holds the icon at the top of its cell, alone it
\* is drawn in the middle of the frame, and the two fingerprints differ
C26_FailingInput ==
    /\ built.op = "buildIndex"
    /\ ~built.threw
    /\ icons = <<Icon(IconName(1),
                      Shaped("diag", 0, 2 * DefaultViewBox, DefaultViewBox))>>
    /\ buildSize = Omitted
    /\ spriteFails = {}
    /\ built.value.hashes # computeDHash(icons[1].svg, Omitted).value

\* the same for the icons of the shape the build script gives an icon set
\* without sizes: square icons get the fingerprint they get alone
C26_SquareIconsAgree ==
    LET n == SizeOrDefault(buildSize)
        pushes == Pushes
    IN  \A k \in 1..Len(pushes) :
            ( /\ BySprite(pushes[k])
              /\ icons[pushes[k].icon].svg.kind # "invalid"
              /\ icons[pushes[k].icon].svg.vbW = icons[pushes[k].icon].svg.vbH ) =>
                building.hashBuffers[k]
                    = computeDHash(icons[pushes[k].icon].svg, Given(n)).value

(***************************************************************************)
(* The order of the steps of buildIndex (checked under SpecBuild).         *)
(***************************************************************************)
\* where in the log the rasterizer's answer for batch b stands (0: not yet)
SettledAt(b) ==
    IF \E k \in 1..Len(building.log) :
           /\ building.log[k].batch = b
           /\ building.log[k].what \in {"rasterized", "rejected"}
    THEN CHOOSE k \in 1..Len(building.log) :
           /\ building.log[k].batch = b
           /\ building.log[k].what \in {"rasterized", "rejected"}
    ELSE 0

\* the batch whose sheet is with the rasterizer or whose icons are hashed
\* one by one
BatchAtWork == building.i \div batchSize

\* C25: buildIndex handles batches strictly one after another in input
\* order: the hashes of a batch are extracted (or its icons hashed alone)
\* only after its rasterization has completed or failed; the sheet of the
\* next batch is handed to the rasterizer only after the batch before has
\* pushed its entries; and the entries stand in names and hashBuffers in
\* batch order and, inside a batch, in input order.
C25_BatchesOneAfterAnother ==
    LET log == building.log
        pushes == Pushes
        settled == [b \in 0..(MaxBatches + 1) |-> SettledAt(b)]
    IN  /\ \A k \in 1..Len(log) :
              /\ log[k].what = "extract" =>
                    /\ settled[log[k].batch] \in 1..(k - 1)
                    /\ log[settled[log[k].batch]].what = "rasterized"
              /\ log[k].what = "hash alone" =>
                    /\ settled[log[k].batch] \in 1..(k - 1)
                    /\ log[settled[log[k].batch]].what = "rejected"
              /\ log[k].what = "push" => settled[log[k].batch] \in 1..(k - 1)
              /\ log[k].what = "rasterize" =>
                    /\ log[k].batch > 0 => settled[log[k].batch - 1] \in 1..(k - 1)
                    /\ \A j \in 1..Len(log) :
                          log[j].what \in {"push", "hash alone"} =>
                              (log[j].batch < log[k].batch <=> j < k)
        /\ building.pc \in {"raster", "icons"} =>
              /\ \A k \in 1..Len(pushes) : pushes[k].batch < BatchAtWork
              /\ ~\E k \in 1..Len(log) :
                     log[k] = Event("rasterize", BatchAtWork + 1, 0)
        /\ Len(building.names) = Len(pushes)
        /\ Len(building.hashBuffers) = Len(pushes)
        /\ \A k \in 1..Len(pushes) :
              /\ pushes[k].batch = BatchOf(pushes[k].icon)
              /\ building.names[k] = icons[pushes[k].icon].name
              /\ k > 1 => pushes[k - 1].icon < pushes[k].icon

\* two batches: the sheet of the first was rejected and two of its icons
\* were hashed alone, then the sheet of the last icon was rasterized
C25_Witness ==
    /\ building.pc = "done"
    /\ Len(icons) = MaxBatches * batchSize + 1
    /\ spriteFails = {0}
    /\ SheetComposed(MaxBatches * batchSize)
    /\ building.names = <<IconName(1), IconName(2), IconName(Len(icons))>>

(***************************************************************************)
(* Several findMatches calls on one loaded index.  SpecQueries loads the   *)
(* index from its two files once and lets every caller run one query on   *)
(* the object loadIndex returned.  A call runs to its await at line 200    *)
(* and, when the fingerprint of its image is there, from line 202 to its   *)
(* end without another await, so calls interleave at line 200 only.        *)
(***************************************************************************)
\* the callers that share the index
MaxCallers == 2
Callers == 1..MaxCallers

\* a caller that has not called yet
NotAsked ==
    [pc |-> "idle", svg |-> InvalidImage, options |-> DefaultOptions,
     result |-> NoCall, overlapped |-> FALSE]

\* the two files build-index.ts writes for an index (lines 117-124)
FilesOf(idx) ==
    [names |-> gzipSync(Utf8Encode(joinLines(idx.names, 1, Len(idx.names)))),
     hashes |-> gzipSync(idx.hashes)]

\* the records of the indexes on disk
StoredRecordLists ==
    { <<>>,
      << [form |-> "l", picture |-> Picture("step", 1)],
         [form |-> "m", picture |-> Picture("step", 0)] >>,
      << [form |-> "l", picture |-> Picture("step", 2)],
         [form |-> "l", picture |-> Picture("step", 1)],
         [form |-> "m", picture |-> Picture("step", 0)] >> }

\* the files of an index as built, and files that do not belong together:
\* the hashes of a shorter index, or hashes cut short by a byte
StoredFiles ==
    {FilesOf(IndexOf(kinds)) : kinds \in StoredRecordLists}
    \cup {[names |-> FilesOf(IndexOf(kinds)).names,
           hashes |-> gzipSync(SubSeq(IndexOf(kinds).hashes, 1, cut))] :
             kinds \in {k \in StoredRecordLists : Len(k) = 2},
             cut \in {HASH_BYTES, 2 * HASH_BYTES - 1}}

\* the options the callers pass
CallerOptions ==
    {DefaultOptions, [DefaultOptions EXCEPT !.prefixes = Given(<< <<"l">> >>)]}

InitQueries ==
    /\ \E files \in StoredFiles :
          /\ namesGz = files.names
          /\ hashesGz = files.hashes
    /\ loaded = NoCall
    /\ running = [q \in Callers |-> NotAsked]
    /\ engine \in Engines
    /\ index = [names |-> <<>>, hashes |-> <<>>]
    /\ query = InvalidImage
    /\ options = DefaultOptions
    /\ matches = NoCall
    /\ candidates = <<>>
    /\ icons = <<>>
    /\ buildSize = Omitted
    /\ spriteFails = {}
    /\ built = NoCall
    /\ progress = <<>>
    /\ IdleCodec /\ IdleHash
    /\ IdleFetch /\ IdleCache /\ IdleCli /\ IdleBuild

\* the names of the index reversed in place, as index.names.reverse() does
indexAfterReverseInPlace(idx) ==
    [idx EXCEPT !.names = [i \in 1..Len(idx.names) |->
                              idx.names[Len(idx.names) + 1 - i]]]

\* findMatches writes index.names[i] and index.hashes[...] nowhere and calls
\* no method on them that does (lines 193-243): the index after a call
indexAfterFindMatches(idx) == idx

\* findMatches(svg, index, options) up to its await (lines 198-200)
QueryStarts(q) ==
    /\ loaded.op = "loadIndex"
    /\ ~loaded.threw
    /\ running[q].pc = "idle"
    /\ \E img \in Queries, opts \in CallerOptions :
          running' = [running EXCEPT ![q] =
                         [pc |-> "hashing", svg |-> img, options |-> opts,
                          result |-> NoCall, overlapped |-> FALSE]]
    /\ UNCHANGED <<varsCodec, varsHash, varsMatch, varsIndex>>
    /\ UNCHANGED <<varsFetch, varsCache, varsCli, varsBuild>>

\* the fingerprint of the caller's image is there: the rest of findMatches
\* (lines 202-243) on the shared index
QueryEnds(q) ==
    /\ running[q].pc = "hashing"
    /\ running' = [running EXCEPT ![q] =
          [@ EXCEPT !.pc = "done",
                    !.result = findMatches(running[q].svg,
                                   matchesOfLoop(running[q].svg, loaded.value,
                                                 running[q].options),
                                   running[q].options, engine),
                    !.overlapped = \E p \in Callers \ {q} :
                                       running[p].pc = "hashing"]]
    /\ loaded' = [loaded EXCEPT !.value = indexAfterFindMatches(@)]
    /\ UNCHANGED <<icons, buildSize, spriteFails, built, progress, namesGz, hashesGz>>
    /\ UNCHANGED <<varsCodec, varsHash, varsMatch>>
    /\ UNCHANGED <<varsFetch, varsCache, varsCli, varsBuild>>

NextQueries ==
    \/ CallLoadIndex
    \/ \E q \in Callers : QueryStarts(q)
    \/ \E q \in Callers : QueryEnds(q)

SpecQueries == InitQueries /\ [][NextQueries]_vars

\* what a call returns when it runs alone on the index as loadIndex gives it
ResultAlone(img, opts) ==
    findMatches(img,
                matchesOfLoop(img, loadIndex(namesGz, hashesGz).value, opts),
                opts, engine)

readsAtOffset(offset) ==
    {offset + 4 * w + d : w \in 0..(HASH_BYTES \div 4 - 1), d \in 0..3}

\* the records (0-based) the loop of findMatches hands to the distance
\* routine: all but the ones skipped at line 212
scannedRecords(idx, opts) ==
    {i \in 0..(Len(idx.names) - 1) :
        ~skippedByPrefix(idx.names[i + 1], SetOrNull(opts.prefixes))}

\* C29: for every index returned by loadIndex and every record i that
\* findMatches scans, the 128 byte positions i*128 .. i*128+127 read by the
\* distance routine lie inside index.hashes.
C29_ReadsStayInsideHashes ==
    \A q \in Callers :
        (running[q].pc = "done" /\ ~running[q].result.threw) =>
            \A i \in scannedRecords(loaded.value, running[q].options) :
                readsAtOffset(i * HASH_BYTES)
                    \subseteq 0..(Len(loaded.value.hashes) - 1)

\* loadIndex(gzip('l:1\nm:2'), gzip(the 128 bytes of l:1)), then
\* findMatches(the empty picture, index): record 1 is read at bytes
\* 128..255 of a buffer of 128 bytes, every byte there counts as 0, and
\* 'm:2' is returned as a match of the fingerprint of nothing
C29_FailingInput ==
    /\ loaded.op = "loadIndex"
    /\ ~loaded.threw
    /\ Len(loaded.value.names) = 2
    /\ Len(loaded.value.hashes) = HASH_BYTES
    /\ running[1].pc = "done"
    /\ running[1].svg = Picture("step", 0)
    /\ running[1].options = DefaultOptions
    /\ \E k \in 1..Len(running[1].result.value) :
          /\ running[1].result.value[k].name = loaded.value.names[2]
          /\ running[1].result.value[k].similarity
                 = OneMinusQuotient(
                       hammingDistance(computeDHashOf[Picture("step", 0), Omitted].value,
                                       Filled(HASH_BYTES, 0)).value,
                       HASH_BYTES * 8)

\* on the files of an index as built every read is inside the buffer
C29_HoldsOnBuiltFiles ==
    (\E kinds \in StoredRecordLists :
        namesGz = FilesOf(IndexOf(kinds)).names
        /\ hashesGz = FilesOf(IndexOf(kinds)).hashes)
    => C29_ReadsStayInsideHashes

====
